---- MODULE Spec2Model ----
(***************************************************************************)
(* Lemonade orchestration core: engine servers (SDServer, RyzenAIServer),  *)
(* the server-side BackendManager with its recipes cache, the renderer's   *)
(* install / pull stream consumers (installBackend, pullModel) and the     *)
(* useInferenceState pre-flight state machine.                             *)
(*                                                                         *)
(* Each subsystem has its own next-state relation and specification        *)
(* (SpecEngine, SpecBM, SpecXfer, SpecPF); they share one Init and leave   *)
(* the variables of the other subsystems unchanged.                        *)
(***************************************************************************)
EXTENDS Naturals, Integers, Sequences, FiniteSets, TLC

VARIABLES
    \* ---- engine servers (sd_server.cpp, ryzenaiserver.cpp)
    sd_process_handle,   \* SDServer::process_handle_.pid (0 = none)
    sd_port,             \* SDServer::port_
    sd_alive,            \* children started by the SDServer object that are running
    rz_process_handle,   \* RyzenAIServer::process_handle_.pid (0 = none)
    rz_port,             \* RyzenAIServer::port_
    is_loaded_,          \* RyzenAIServer::is_loaded_
    model_path_,         \* RyzenAIServer::model_path_ ("" = empty)
    rz_alive,            \* children started by the RyzenAIServer object that are running
    next_pid,            \* pid the OS hands to the next spawned child
    eng_last,            \* outcome of the last load()/unload() call
    eng_reply,           \* what the last SDServer request operation returned
    \* ---- BackendManager (backend_manager.cpp)
    cached_recipes_,     \* BackendManager::cached_recipes_ (Empty or target -> entry or Absent)
    disk,                \* install directory of each (recipe, backend)
    bm,                  \* per request thread: the install/uninstall call it is running
    cache_mutex_,        \* BackendManager::cache_mutex_: "free" or the thread holding it
    probe,               \* status snapshot a system-info request has probed, not yet published
    lastRead,            \* what the last get_recipes_cache() returned, with what was due
    trail,               \* the last calls a single request thread completed, oldest first
    \* ---- installBackend / pullModel (renderer, backendInstaller)
    xf,                  \* locals of the running call and the tracker entry it registered
    xg,                  \* history of the running call (what the stream delivered)
    \* ---- useInferenceState
    phaseRef,            \* phaseRef.current
    activeModality,      \* activeModality state
    pf,                  \* per caller: its runPreFlight call
    \* ---- ensureModelReady
    emr,                 \* the running pre-flight: position, arguments, requests issued
    \* ---- utils::Version
    ver,                 \* the version strings last compared and what the calls returned
    \* ---- TranscriptionPanel: live microphone recording
    live,                \* position of handleMicStart / handleMicStop and the socket
    \* ---- callers of ensureModelReady (runPreFlight, Model Manager, useTTS)
    flights,             \* the ensureModelReady runs in flight, per entry point
    \* ---- LLMChatPanel: handleStreamingResponse
    chat                 \* the response stream last consumed, how it was chunked, the result

engineVars == <<sd_process_handle, sd_port, sd_alive, rz_process_handle, rz_port,
                is_loaded_, model_path_, rz_alive, next_pid, eng_last, eng_reply>>
bmVars == <<cached_recipes_, disk, bm, cache_mutex_>>
obsVars == <<probe, lastRead, trail>>
emrVars == <<emr>>
xferVars == <<xf, xg>>
pfVars == <<phaseRef, activeModality, pf>>
verVars == <<ver>>
liveVars == <<live>>
flightVars == <<flights>>
chatVars == <<chat>>
vars == <<engineVars, bmVars, obsVars, xferVars, pfVars, emrVars, verVars, liveVars,
         flightVars, chatVars>>

(***************************************************************************)
(* Engine servers                                                          *)
(***************************************************************************)

\* Number of child processes the operating system can hand out in one run.
MaxPid == 2
\* Number of distinct loopback ports choose_port() can return.
MaxPort == 2

Pids == 1..MaxPid
Ports == 1..MaxPort

\* utils::ProcessManager::stop_process(handle): the child with that pid is
\* no longer running afterwards (idempotent on a stopped or null handle).
stop_process(alive, pid) == alive \ {pid}

\* load(), unload() and set_model_path() return nothing to the client.
NoReply == [kind |-> "none"]

InitEngine ==
    /\ sd_process_handle = 0
    /\ sd_port = 0
    /\ sd_alive = {}
    /\ rz_process_handle = 0
    /\ rz_port = 0
    /\ is_loaded_ = FALSE
    /\ model_path_ = ""
    /\ rz_alive = {}
    /\ next_pid = 1
    /\ eng_last = "none"
    /\ eng_reply = NoReply

engineFrame == UNCHANGED <<bmVars, obsVars, xferVars, pfVars, emrVars, verVars, liveVars,
                       flightVars, chatVars>>
sdFrame ==
    /\ UNCHANGED <<rz_process_handle, rz_port, is_loaded_, model_path_, rz_alive>>
    /\ eng_reply' = NoReply
    /\ engineFrame
rzFrame ==
    /\ UNCHANGED <<sd_process_handle, sd_port, sd_alive>>
    /\ eng_reply' = NoReply
    /\ engineFrame

\* SDServer::unload(): stops the child only when a handle is stored.
SDUnloadEffect(alive) ==
    IF sd_process_handle # 0
    THEN [alive |-> stop_process(alive, sd_process_handle), handle |-> 0, port |-> 0]
    ELSE [alive |-> alive, handle |-> sd_process_handle, port |-> sd_port]

\* SDServer::load fails before choose_port(): install() throws, or the model
\* path is empty, a directory or missing.  Nothing has been assigned yet.
SDLoadFailEarly ==
    /\ eng_last' = "sd_load_failed_early"
    /\ UNCHANGED <<sd_process_handle, sd_port, sd_alive, next_pid>>
    /\ sdFrame

\* SDServer::load: choose_port() returned 0; port_ already holds it.
SDLoadNoPort ==
    /\ sd_port' = 0
    /\ eng_last' = "sd_load_failed_port"
    /\ UNCHANGED <<sd_process_handle, sd_alive, next_pid>>
    /\ sdFrame

\* SDServer::load: start_process returned a handle with pid 0.
SDLoadSpawnFail ==
    /\ \E p \in Ports : sd_port' = p
    /\ sd_process_handle' = 0
    /\ eng_last' = "sd_load_failed_spawn"
    /\ UNCHANGED <<sd_alive, next_pid>>
    /\ sdFrame

\* A faulty SDServer::load that throws on a failed readiness probe without
\* calling unload().
SDLoadSpawnedNoStop(ready) ==
    /\ next_pid <= MaxPid
    /\ next_pid' = next_pid + 1
    /\ \E p \in Ports : sd_port' = p
    /\ sd_process_handle' = next_pid
    /\ sd_alive' = sd_alive \cup {next_pid}
    /\ eng_last' = IF ready THEN "sd_load_ok" ELSE "sd_load_failed_ready"
    /\ sdFrame

\* SDServer::load: the child started, the stored handle is overwritten with
\* it, and wait_for_ready("/") decides between ready and unload()+throw.
SDLoadSpawned(ready) ==
    /\ next_pid <= MaxPid
    /\ next_pid' = next_pid + 1
    /\ IF ready
       THEN /\ \E p \in Ports : sd_port' = p
            /\ sd_process_handle' = next_pid
            /\ sd_alive' = sd_alive \cup {next_pid}
            /\ eng_last' = "sd_load_ok"
       ELSE \* unload() on the handle just stored
            /\ sd_port' = 0
            /\ sd_process_handle' = 0
            /\ sd_alive' = stop_process(sd_alive \cup {next_pid}, next_pid)
            /\ eng_last' = "sd_load_failed_ready"
    /\ sdFrame

SDLoadReady == SDLoadSpawned(TRUE)
SDLoadNotReady == SDLoadSpawned(FALSE)

SDUnload ==
    /\ sd_alive' = SDUnloadEffect(sd_alive).alive
    /\ sd_process_handle' = SDUnloadEffect(sd_alive).handle
    /\ sd_port' = SDUnloadEffect(sd_alive).port
    /\ eng_last' = "sd_unload"
    /\ UNCHANGED next_pid
    /\ sdFrame

\* The operations SDServer does not support, by the name each passes to
\* UnsupportedOperationException.
UnsupportedOps == {"Chat completion", "Text completion", "Responses"}

\* ErrorResponse::from_exception(UnsupportedOperationException(operation,
\* "sd-cpp (image generation model)")): the JSON error object handed back.
UnsupportedOperation(operation) ==
    [kind |-> "UnsupportedOperation", operation |-> operation,
     engine |-> "sd-cpp (image generation model)"]

\* forward_request(path, request, timeout): a request sent to the child
\* listening on port_.
Forwarded(path) == [kind |-> "forwarded", path |-> path, port |-> sd_port]

sdRequestFrame ==
    /\ UNCHANGED <<sd_process_handle, sd_port, sd_alive, next_pid>>
    /\ UNCHANGED <<rz_process_handle, rz_port, is_loaded_, model_path_, rz_alive>>
    /\ engineFrame

\* A faulty unsupported operation that passes the request on to the child
\* the way image_generations does.
SDUnsupportedForwards(op) ==
    /\ eng_reply' = Forwarded("/v1/chat/completions")
    /\ eng_last' = "sd_unsupported"
    /\ sdRequestFrame

\* SDServer::chat_completion, completion, responses: each returns the error
\* object at once.
SDUnsupported(op) ==
    /\ eng_reply' = UnsupportedOperation(op)
    /\ eng_last' = "sd_unsupported"
    /\ sdRequestFrame

SDChatCompletion == SDUnsupported("Chat completion")
SDCompletion == SDUnsupported("Text completion")
SDResponses == SDUnsupported("Responses")

\* SDServer::image_generations: builds the request and forwards it.
SDImageGenerations ==
    /\ eng_reply' = Forwarded("/v1/images/generations")
    /\ eng_last' = "sd_image_generations"
    /\ sdRequestFrame

\* RyzenAIServer::set_model_path(path)
RzSetModelPath ==
    /\ \E path \in {"", "model"} : model_path_' = path
    /\ eng_last' = "rz_set_model_path"
    /\ UNCHANGED <<rz_process_handle, rz_port, is_loaded_, rz_alive, next_pid>>
    /\ rzFrame

\* RyzenAIServer::load fails before choose_port(): install_backend throws,
\* the executable is not found, or model_path_ is empty or does not exist.
RzLoadFailEarly ==
    /\ eng_last' = "rz_load_failed_early"
    /\ UNCHANGED <<rz_process_handle, rz_port, is_loaded_, model_path_, rz_alive, next_pid>>
    /\ rzFrame

\* RyzenAIServer::load: start_process gave a handle that is not running:
\* either no process was created (pid 0) or it exited at once.  The handle
\* is stored before is_running() is asked.
RzLoadSpawnFail ==
    /\ model_path_ # ""
    /\ \E p \in Ports : rz_port' = p
    /\ \/ /\ rz_process_handle' = 0
          /\ UNCHANGED next_pid
       \/ /\ next_pid <= MaxPid
          /\ rz_process_handle' = next_pid
          /\ next_pid' = next_pid + 1
    /\ eng_last' = "rz_load_failed_spawn"
    /\ UNCHANGED <<is_loaded_, model_path_, rz_alive>>
    /\ rzFrame

\* RyzenAIServer::load: the child started and the stored handle is
\* overwritten with it; wait_for_ready("/health") decides the outcome.
RzLoadSpawned(ready) ==
    /\ model_path_ # ""
    /\ next_pid <= MaxPid
    /\ next_pid' = next_pid + 1
    /\ \E p \in Ports : rz_port' = p
    /\ IF ready
       THEN /\ rz_process_handle' = next_pid
            /\ rz_alive' = rz_alive \cup {next_pid}
            /\ is_loaded_' = TRUE
            /\ eng_last' = "rz_load_ok"
       ELSE /\ rz_process_handle' = 0
            /\ rz_alive' = stop_process(rz_alive \cup {next_pid}, next_pid)
            /\ is_loaded_' = is_loaded_
            /\ eng_last' = "rz_load_failed_ready"
    /\ UNCHANGED model_path_
    /\ rzFrame

RzLoadReady == RzLoadSpawned(TRUE)
RzLoadNotReady == RzLoadSpawned(FALSE)

RzUnload ==
    /\ IF ~is_loaded_
       THEN UNCHANGED <<rz_process_handle, rz_port, is_loaded_, model_path_, rz_alive>>
       ELSE /\ rz_alive' = IF rz_process_handle > 0
                           THEN stop_process(rz_alive, rz_process_handle)
                           ELSE rz_alive
            /\ rz_process_handle' = 0
            /\ is_loaded_' = FALSE
            /\ rz_port' = 0
            /\ model_path_' = ""
    /\ eng_last' = "rz_unload"
    /\ UNCHANGED next_pid
    /\ rzFrame

\* An engine child exits on its own (crash, out of memory).
ChildExit ==
    /\ \E p \in sd_alive \cup rz_alive :
         /\ sd_alive' = sd_alive \ {p}
         /\ rz_alive' = rz_alive \ {p}
    /\ eng_last' = "child_exit"
    /\ eng_reply' = NoReply
    /\ UNCHANGED <<sd_process_handle, sd_port, rz_process_handle, rz_port,
                   is_loaded_, model_path_, next_pid>>
    /\ engineFrame

NextEngine ==
    \/ SDLoadFailEarly
    \/ SDLoadNoPort
    \/ SDLoadSpawnFail
    \/ SDLoadReady
    \/ SDLoadNotReady
    \/ SDUnload
    \/ SDChatCompletion
    \/ SDCompletion
    \/ SDResponses
    \/ SDImageGenerations
    \/ RzSetModelPath
    \/ RzLoadFailEarly
    \/ RzLoadSpawnFail
    \/ RzLoadReady
    \/ RzLoadNotReady
    \/ RzUnload
    \/ ChildExit

(***************************************************************************)
(* BackendManager: install_backend / uninstall_backend and the recipes     *)
(* cache                                                                   *)
(***************************************************************************)

\* Request threads of the HTTP server pool that run install / uninstall.
Procs == {"t1", "t2"}

\* (recipe, backend) pairs requested in this model.
TVulkan == <<"llamacpp", "vulkan">>   \* supported, has a required version
TRocm == <<"llamacpp", "rocm">>       \* has a required version, host unsupported
TFlm == <<"flm", "npu">>              \* vendor installer
TCuda == <<"llamacpp", "cuda">>       \* known recipe, backend missing from the table
TBogus == <<"bogus", "x">>            \* unknown recipe
Targets == {TVulkan, TRocm, TFlm, TCuda, TBogus}
\* install_backend takes the pair from the /install request as it comes.
TFlmCpu == <<"flm", "cpu">>           \* vendor installer, backend missing from the table
Requests == Targets \cup {TFlmCpu}

\* backends::try_get_spec_for_recipe(recipe) != nullptr
HasSpec(recipe) == recipe \in {"llamacpp", "flm"}

\* BackendManager::backend_versions_ (resources/backend_versions.json)
backend_versions_ ==
    (TVulkan :> "1.3.0") @@ (TRocm :> "1.3.0") @@ (TFlm :> "0.9.0")

\* BackendManager::get_version_from_config: throws when the table has no
\* entry for the pair.
get_version_from_config(recipe, backend) ==
    IF <<recipe, backend>> \in DOMAIN backend_versions_
    THEN [ok |-> TRUE, version |-> backend_versions_[<<recipe, backend>>]]
    ELSE [ok |-> FALSE, version |-> ""]

\* BackendManager::get_install_params: throws for flm, for an unknown recipe
\* and for a missing version; the install-params function is present in the
\* server build.
get_install_params(recipe, backend) ==
    IF recipe = "flm" \/ ~HasSpec(recipe) \/ ~get_version_from_config(recipe, backend).ok
    THEN [ok |-> FALSE, repo |-> "", filename |-> "", version |-> ""]
    ELSE [ok |-> TRUE, repo |-> "ggml-org/llama.cpp", filename |-> backend,
          version |-> get_version_from_config(recipe, backend).version]

\* BackendManager::get_latest_version: the version, or "" when the lookup throws.
get_latest_version(recipe, backend) ==
    IF get_version_from_config(recipe, backend).ok
    THEN get_version_from_config(recipe, backend).version
    ELSE ""

\* Strings that may be absent are tuples: <<>> is the empty / absent string.
\* BackendManager::get_backend_enrichment
get_backend_enrichment(recipe, backend) ==
    IF recipe = "flm"
    THEN [version |-> get_latest_version(recipe, backend),
          release_url |-> IF get_latest_version(recipe, backend) # ""
                          THEN <<"https://github.com/FastFlowLM/FastFlowLM/releases/tag/",
                                 get_latest_version(recipe, backend)>>
                          ELSE <<>>,
          download_filename |-> <<"flm-setup.exe">>]
    ELSE IF get_install_params(recipe, backend).ok
    THEN [version |-> get_install_params(recipe, backend).version,
          release_url |-> <<"https://github.com/", get_install_params(recipe, backend).repo,
                            "/releases/tag/", get_install_params(recipe, backend).version>>,
          download_filename |-> <<get_install_params(recipe, backend).filename>>]
    ELSE [version |-> "", release_url |-> <<>>, download_filename |-> <<>>]

\* "lemonade-server recipes --install " + recipe + ":" + backend
install_action(recipe, backend) ==
    <<"lemonade-server recipes --install ", recipe, ":", backend>>

\* A faulty update that rewrites the version of every backend of the recipe
\* instead of the one entry it was called for.
UpdateRewritesWholeRecipe(cache, recipe, backend, installed) ==
    [u \in DOMAIN cache |->
        IF u[1] = recipe
        THEN [cache[u] EXCEPT !.state = IF installed THEN "installed" ELSE "installable",
                              !.version = <<get_latest_version(recipe, backend)>>]
        ELSE cache[u]]

\* A faulty update that adds the version to the entry's version field
\* instead of replacing the field.
UpdateAccumulatesVersion(cache, recipe, backend, installed) ==
    IF DOMAIN cache = {} \/ <<recipe, backend>> \notin DOMAIN cache
    THEN cache
    ELSE [cache EXCEPT ![<<recipe, backend>>] =
            [@ EXCEPT !.state = IF @ = "unsupported" THEN @
                                ELSE IF installed THEN "installed" ELSE "installable",
                      !.message = IF installed THEN ""
                                  ELSE "Backend is supported but not installed.",
                      !.action = IF installed THEN <<>>
                                 ELSE install_action(recipe, backend),
                      !.version = @ \o <<get_latest_version(recipe, backend)>>]]

\* A faulty update that sets the state of the entry and leaves its message
\* and action as they were.
UpdateKeepsMessage(cache, recipe, backend, installed) ==
    IF DOMAIN cache = {} \/ <<recipe, backend>> \notin DOMAIN cache
    THEN cache
    ELSE [cache EXCEPT ![<<recipe, backend>>] =
            [@ EXCEPT !.state = IF @ = "unsupported" THEN @
                                ELSE IF installed THEN "installed" ELSE "installable",
                      !.version = <<get_latest_version(recipe, backend)>>]]

\* A faulty update without the branch for unsupported entries.
UpdateOverwritesUnsupported(cache, recipe, backend, installed) ==
    IF DOMAIN cache = {} \/ <<recipe, backend>> \notin DOMAIN cache
    THEN cache
    ELSE [cache EXCEPT ![<<recipe, backend>>] =
            IF installed
            THEN [@ EXCEPT !.state = "installed", !.message = "", !.action = <<>>]
            ELSE [@ EXCEPT !.state = "installable",
                           !.message = "Backend is supported but not installed.",
                           !.action = install_action(recipe, backend)]]

\* BackendManager::update_recipes_cache_entry, on the cache value: an empty
\* cache and a cache without the entry are returned as they are; otherwise
\* exactly the one entry is rewritten.
update_recipes_cache_entry(cache, recipe, backend, installed) ==
    IF DOMAIN cache = {} \/ <<recipe, backend>> \notin DOMAIN cache
    THEN cache
    ELSE LET info == cache[<<recipe, backend>>]
             enrichment == get_backend_enrichment(recipe, backend)
             s1 == IF info.state = "unsupported"
                   THEN [info EXCEPT !.action = <<>>]
                   ELSE IF installed
                   THEN [info EXCEPT !.state = "installed", !.message = "",
                                     !.action = <<>>]
                   ELSE [info EXCEPT !.state = "installable",
                                     !.message = "Backend is supported but not installed.",
                                     !.action = install_action(recipe, backend)]
             s2 == [s1 EXCEPT !.version = IF enrichment.version # ""
                                          THEN <<enrichment.version>> ELSE <<>>]
             s3 == IF enrichment.release_url # <<>>
                   THEN [s2 EXCEPT !.release_url = enrichment.release_url] ELSE s2
             s4 == IF enrichment.download_filename # <<>>
                   THEN [s3 EXCEPT !.download_filename = enrichment.download_filename]
                   ELSE s3
         IN [cache EXCEPT ![<<recipe, backend>>] = s4]

\* Install directory <cache_root>/bin/<recipe>/<backend>:
\*   "none"     the directory does not exist
\*   "partial"  the directory exists, the executable does not
\*   "old"      an older version than required is installed
\*   "req"      the required version is installed
DiskStates == {"none", "partial", "old", "req"}
dir_exists(d) == d # "none"
exe_exists(d) == d = "req"

\* The status probe that fills the cache (get_all_backends_status over
\* SystemInfo::get_all_recipe_statuses): one entry per known backend.
ProbeEntry(t, d) ==
    LET base == [state |-> "installable",
                 message |-> "Backend is supported but not installed.",
                 action |-> install_action(t[1], t[2]),
                 version |-> <<>>,
                 release_url |-> get_backend_enrichment(t[1], t[2]).release_url,
                 download_filename |-> <<>>]
    IN IF t = TRocm
       THEN [base EXCEPT !.state = "unsupported",
                         !.message = "Requires an AMD GPU.", !.action = <<>>]
       ELSE IF d = "req"
       THEN [base EXCEPT !.state = "installed", !.message = "", !.action = <<>>,
                         !.version = <<get_latest_version(t[1], t[2])>>]
       ELSE IF d = "old"
       THEN [base EXCEPT !.state = "update_required",
                         !.message = "Backend update is required.",
                         !.version = <<"1.2.0">>]
       ELSE base

CachedTargets == {TVulkan, TRocm, TFlm}
EmptyCache == [t \in {} |-> 0]
ProbeCache(dk) == [t \in CachedTargets |-> ProbeEntry(t, dk[t])]

IdleCall == [pc |-> "idle", op |-> "none", target |-> TBogus, attempt |-> 0,
             ec |-> FALSE, result |-> "none"]

InitBM ==
    /\ \E d \in {"none", "old", "req"} :
         disk = [t \in Requests |-> IF t = TVulkan THEN d ELSE "none"]
    /\ cached_recipes_ \in {EmptyCache, ProbeCache(disk)}
    /\ bm = [p \in Procs |-> IdleCall]
    /\ cache_mutex_ = "free"

Finish(call, res) == [call EXCEPT !.pc = "done", !.result = res]

\* Attempts of the removal loop in uninstall_backend.
MaxRemoveAttempts == 5

bmFrame == UNCHANGED <<engineVars, xferVars, pfVars, emrVars, verVars, liveVars,
                       flightVars, chatVars>>

\* A faulty install_backend that takes cache_mutex_ on entry and keeps it
\* over the download.
InstallBeginHoldsMutex(p, t) ==
    /\ bm[p].pc = "idle"
    /\ cache_mutex_ = "free"
    /\ cache_mutex_' = p
    /\ bm' = [bm EXCEPT ![p] = [IdleCall EXCEPT !.op = "install", !.target = t,
                                                !.pc = "download"]]
    /\ UNCHANGED <<cached_recipes_, disk>>
    /\ bmFrame

\* install_backend(recipe, backend), up to the blocking installer call:
\* flm goes to the vendor installer; otherwise get_install_params decides
\* whether the call throws before any download.
InstallBegin(p, t) ==
    /\ bm[p].pc = "idle"
    /\ LET call == [IdleCall EXCEPT !.op = "install", !.target = t]
       IN bm' = [bm EXCEPT ![p] =
                   IF t[1] = "flm" THEN [call EXCEPT !.pc = "flm_install"]
                   ELSE IF ~get_install_params(t[1], t[2]).ok THEN Finish(call, "error")
                   ELSE [call EXCEPT !.pc = "download"]]
    /\ UNCHANGED <<cached_recipes_, disk, cache_mutex_>>
    /\ bmFrame

\* BackendUtils::install_from_github returned: the required version is
\* extracted and prior versions are removed.
InstallFromGithubOk(p) ==
    /\ bm[p].pc = "download"
    /\ disk' = [disk EXCEPT ![bm[p].target] = "req"]
    /\ bm' = [bm EXCEPT ![p].pc = "update"]
    /\ UNCHANGED <<cached_recipes_, cache_mutex_>>
    /\ bmFrame

\* A faulty install_backend that records the backend as installed before it
\* reports the failed download.
InstallFailMarksInstalled(p) ==
    /\ bm[p].pc = "download"
    /\ cached_recipes_' = update_recipes_cache_entry(
           cached_recipes_, bm[p].target[1], bm[p].target[2], TRUE)
    /\ bm' = [bm EXCEPT ![p] = Finish(bm[p], "error")]
    /\ UNCHANGED <<disk, cache_mutex_>>
    /\ bmFrame

\* BackendUtils::install_from_github threw (download or extraction failed):
\* install_backend propagates the exception; the install directory is as it
\* was and update_recipes_cache_entry is not reached.
InstallFromGithubFail(p) ==
    /\ bm[p].pc = "download"
    /\ bm' = [bm EXCEPT ![p] = Finish(bm[p], "error")]
    /\ UNCHANGED <<cached_recipes_, disk, cache_mutex_>>
    /\ bmFrame

\* FastFlowLMServer::install_if_needed returned.
FlmInstallOk(p) ==
    /\ bm[p].pc = "flm_install"
    /\ disk' = [disk EXCEPT ![bm[p].target] = "req"]
    /\ bm' = [bm EXCEPT ![p].pc = "update"]
    /\ UNCHANGED <<cached_recipes_, cache_mutex_>>
    /\ bmFrame

\* FastFlowLMServer::install_if_needed threw.
FlmInstallFail(p) ==
    /\ bm[p].pc = "flm_install"
    /\ bm' = [bm EXCEPT ![p] = Finish(bm[p], "error")]
    /\ UNCHANGED <<cached_recipes_, disk, cache_mutex_>>
    /\ bmFrame

\* The closing update_recipes_cache_entry(recipe, backend, installed) of
\* install_backend (installed = true) and uninstall_backend (false) is
\* entered: its lock_guard acquires cache_mutex_.
UpdateLock(p) ==
    /\ bm[p].pc = "update"
    /\ cache_mutex_ = "free"
    /\ cache_mutex_' = p
    /\ bm' = [bm EXCEPT ![p].pc = "locked"]
    /\ UNCHANGED <<cached_recipes_, disk>>
    /\ bmFrame

\* A faulty closing update that flips the entry instead of setting it from
\* the operation.
UpdateCacheToggles(p) ==
    /\ bm[p].pc = "locked"
    /\ cached_recipes_' = update_recipes_cache_entry(
           cached_recipes_, bm[p].target[1], bm[p].target[2],
           IF bm[p].target \in DOMAIN cached_recipes_
           THEN cached_recipes_[bm[p].target].state # "installed" ELSE TRUE)
    /\ cache_mutex_' = "free"
    /\ bm' = [bm EXCEPT ![p] = Finish(bm[p], "ok")]
    /\ UNCHANGED disk
    /\ bmFrame

\* The body of update_recipes_cache_entry under the lock; the lock_guard
\* releases the mutex on return and the call returns.
UpdateCache(p) ==
    /\ bm[p].pc = "locked"
    /\ cached_recipes_' = update_recipes_cache_entry(
           cached_recipes_, bm[p].target[1], bm[p].target[2], bm[p].op = "install")
    /\ cache_mutex_' = "free"
    /\ bm' = [bm EXCEPT ![p] = Finish(bm[p], "ok")]
    /\ UNCHANGED disk
    /\ bmFrame

\* uninstall_backend(recipe, backend), up to the removal loop: throws for
\* flm and for an unknown recipe; skips the loop when the directory is absent.
UninstallBegin(p, t) ==
    /\ bm[p].pc = "idle"
    /\ LET call == [IdleCall EXCEPT !.op = "uninstall", !.target = t]
       IN bm' = [bm EXCEPT ![p] =
                   IF t[1] = "flm" \/ ~HasSpec(t[1]) THEN Finish(call, "error")
                   ELSE IF dir_exists(disk[t]) THEN [call EXCEPT !.pc = "remove"]
                   ELSE [call EXCEPT !.pc = "update"]]
    /\ UNCHANGED <<cached_recipes_, disk, cache_mutex_>>
    /\ bmFrame

\* What one fs::remove_all(install_dir, ec) can leave behind: everything
\* removed without error, or an error with nothing, some or all removed.
RemoveOutcomes(d) ==
    {[disk |-> "none", ec |-> FALSE]}
      \cup {[disk |-> x, ec |-> TRUE] : x \in {d, IF dir_exists(d) THEN "partial" ELSE d, "none"}}

\* One iteration of the loop: remove_all, then the break test.
RemoveAttempt(p) ==
    /\ bm[p].pc = "remove"
    /\ \E o \in RemoveOutcomes(disk[bm[p].target]) :
         /\ disk' = [disk EXCEPT ![bm[p].target] = o.disk]
         /\ bm' = [bm EXCEPT ![p].ec = o.ec,
                             ![p].pc = IF ~o.ec \/ ~dir_exists(o.disk)
                                       THEN "check" ELSE "sleep"]
    /\ UNCHANGED <<cached_recipes_, cache_mutex_>>
    /\ bmFrame

\* A faulty removal loop that goes on retrying past the attempt limit.
RemoveSleepUnbounded(p) ==
    /\ bm[p].pc = "sleep"
    /\ bm' = [bm EXCEPT ![p].attempt = bm[p].attempt + 1, ![p].pc = "remove"]
    /\ UNCHANGED <<cached_recipes_, disk, cache_mutex_>>
    /\ bmFrame

\* std::this_thread::sleep_for(500 ms), ++attempt and the loop condition.
RemoveSleep(p) ==
    /\ bm[p].pc = "sleep"
    /\ bm' = [bm EXCEPT ![p].attempt = bm[p].attempt + 1,
                        ![p].pc = IF bm[p].attempt + 1 < MaxRemoveAttempts
                                  THEN "remove" ELSE "check"]
    /\ UNCHANGED <<cached_recipes_, disk, cache_mutex_>>
    /\ bmFrame

\* After the loop: throw when the error stands and the directory is still
\* there, else go on to the cache update.
UninstallCheck(p) ==
    /\ bm[p].pc = "check"
    /\ bm' = [bm EXCEPT ![p] =
                IF bm[p].ec /\ dir_exists(disk[bm[p].target])
                THEN Finish(bm[p], "error")
                ELSE [bm[p] EXCEPT !.pc = "update"]]
    /\ UNCHANGED <<cached_recipes_, disk, cache_mutex_>>
    /\ bmFrame

\* The call has returned or thrown; the thread takes the next request.
CallReturn(p) ==
    /\ bm[p].pc = "done"
    /\ bm' = [bm EXCEPT ![p] = IdleCall]
    /\ UNCHANGED <<cached_recipes_, disk, cache_mutex_>>
    /\ bmFrame

\* What a step of thread p is, whatever is observed of it.
CallStep(p) ==
    \/ \E t \in Targets : InstallBegin(p, t)
    \/ InstallFromGithubOk(p)
    \/ InstallFromGithubFail(p)
    \/ FlmInstallOk(p)
    \/ FlmInstallFail(p)
    \/ UpdateLock(p)
    \/ UpdateCache(p)
    \/ \E t \in Targets : UninstallBegin(p, t)
    \/ RemoveAttempt(p)
    \/ RemoveSleep(p)
    \/ UninstallCheck(p)

NextBM ==
    \E p \in Procs :
       \/ (\E t \in Targets : InstallBegin(p, t)) /\ UNCHANGED obsVars
       \/ InstallFromGithubOk(p) /\ UNCHANGED obsVars
       \/ InstallFromGithubFail(p) /\ UNCHANGED obsVars
       \/ FlmInstallOk(p) /\ UNCHANGED obsVars
       \/ FlmInstallFail(p) /\ UNCHANGED obsVars
       \/ UpdateLock(p) /\ UNCHANGED obsVars
       \/ UpdateCache(p) /\ UNCHANGED obsVars
       \/ (\E t \in Targets : UninstallBegin(p, t)) /\ UNCHANGED obsVars
       \/ RemoveAttempt(p) /\ UNCHANGED obsVars
       \/ RemoveSleep(p) /\ UNCHANGED obsVars
       \/ UninstallCheck(p) /\ UNCHANGED obsVars
       \/ CallReturn(p) /\ UNCHANGED obsVars

\* Calls one run of the sequential specifications makes.
MaxTrail == 3

\* The calls that have returned or thrown so far, each with the cache and
\* the install directories as they were at that moment.
Record(p) ==
    trail' = IF bm'[p].pc = "done" /\ bm[p].pc # "done"
             THEN Append(trail, [op |-> bm'[p].op, target |-> bm'[p].target,
                                 result |-> bm'[p].result,
                                 cache |-> cached_recipes_', disk |-> disk'])
             ELSE trail

\* One request thread issuing at most limit install_backend /
\* uninstall_backend calls, one after the other.
SeqStep(limit) ==
    \/ (\E t \in Targets : InstallBegin("t1", t)) /\ Len(trail) < limit
          /\ Record("t1") /\ UNCHANGED <<probe, lastRead>>
    \/ InstallFromGithubOk("t1") /\ Record("t1") /\ UNCHANGED <<probe, lastRead>>
    \/ InstallFromGithubFail("t1") /\ Record("t1") /\ UNCHANGED <<probe, lastRead>>
    \/ FlmInstallOk("t1") /\ Record("t1") /\ UNCHANGED <<probe, lastRead>>
    \/ FlmInstallFail("t1") /\ Record("t1") /\ UNCHANGED <<probe, lastRead>>
    \/ UpdateLock("t1") /\ Record("t1") /\ UNCHANGED <<probe, lastRead>>
    \/ UpdateCache("t1") /\ Record("t1") /\ UNCHANGED <<probe, lastRead>>
    \/ (\E t \in Targets : UninstallBegin("t1", t)) /\ Len(trail) < limit
          /\ Record("t1") /\ UNCHANGED <<probe, lastRead>>
    \/ RemoveAttempt("t1") /\ Record("t1") /\ UNCHANGED <<probe, lastRead>>
    \/ RemoveSleep("t1") /\ Record("t1") /\ UNCHANGED <<probe, lastRead>>
    \/ UninstallCheck("t1") /\ Record("t1") /\ UNCHANGED <<probe, lastRead>>
    \/ CallReturn("t1") /\ Record("t1") /\ UNCHANGED <<probe, lastRead>>

NextBMSeq == SeqStep(MaxTrail)

\* Calls the request thread makes next to /system-info requests.
MaxCacheCalls == 1

\* No status snapshot taken or published yet.
NoProbe == [snap |-> <<>>, snapAt |-> 0, pubAt |-> -1, pubSnapAt |-> -1]

\* A /system-info request thread probes the backends
\* (get_all_backends_status) and holds the snapshot; snapAt is the number
\* of install / uninstall calls finished by then.
ProbeStatus ==
    /\ probe' = [probe EXCEPT !.snap = <<ProbeCache(disk)>>, !.snapAt = Len(trail)]
    /\ UNCHANGED <<bmVars, lastRead, trail>>
    /\ bmFrame

\* set_recipes_cache(recipes): under cache_mutex_ the whole cache is
\* replaced by the snapshot the caller holds.
SetRecipesCache ==
    /\ probe.snap # <<>>
    /\ cache_mutex_ = "free"
    /\ cached_recipes_' = probe.snap[1]
    /\ probe' = [probe EXCEPT !.snap = <<>>, !.pubAt = Len(trail),
                              !.pubSnapAt = probe.snapAt]
    /\ UNCHANGED <<disk, bm, cache_mutex_, lastRead, trail>>
    /\ bmFrame

\* Position in the trail of the last call that returned normally and whose
\* (recipe, backend) had a cache entry to update; 0 when there is none.
LastUpdate ==
    LET ks == {k \in DOMAIN trail : /\ trail[k].result = "ok"
                                    /\ trail[k].target \in DOMAIN trail[k].cache}
    IN IF ks = {} THEN 0 ELSE CHOOSE k \in ks : \A j \in ks : j <= k

\* get_recipes_cache(): under cache_mutex_ a copy of the cache is returned.
\* The read is kept next to the entry the last finished call wrote (due),
\* when every snapshot published since that call finished had been probed
\* before it finished.
GetRecipesCache ==
    /\ cache_mutex_ = "free"
    /\ lastRead' =
         <<[got |-> cached_recipes_,
            due |-> IF LastUpdate > 0
                       /\ (probe.pubAt < LastUpdate \/ probe.pubSnapAt < LastUpdate)
                    THEN <<trail[LastUpdate].target,
                           trail[LastUpdate].cache[trail[LastUpdate].target]>>
                    ELSE <<>>]>>
    /\ UNCHANGED <<bmVars, probe, trail>>
    /\ bmFrame

\* The request thread next to /system-info requests that probe the
\* backends, publish the snapshot and read the cache.
NextCache ==
    \/ SeqStep(MaxCacheCalls)
    \/ ProbeStatus
    \/ SetRecipesCache
    \/ GetRecipesCache

\* One request thread issuing install_backend calls, one after the other,
\* on any requested pair.
NextInstall ==
    \/ (\E t \in Requests : InstallBegin("t1", t)) /\ Len(trail) < MaxTrail
          /\ Record("t1") /\ UNCHANGED <<probe, lastRead>>
    \/ InstallFromGithubOk("t1") /\ Record("t1") /\ UNCHANGED <<probe, lastRead>>
    \/ InstallFromGithubFail("t1") /\ Record("t1") /\ UNCHANGED <<probe, lastRead>>
    \/ FlmInstallOk("t1") /\ Record("t1") /\ UNCHANGED <<probe, lastRead>>
    \/ FlmInstallFail("t1") /\ Record("t1") /\ UNCHANGED <<probe, lastRead>>
    \/ UpdateLock("t1") /\ Record("t1") /\ UNCHANGED <<probe, lastRead>>
    \/ UpdateCache("t1") /\ Record("t1") /\ UNCHANGED <<probe, lastRead>>
    \/ CallReturn("t1") /\ Record("t1") /\ UNCHANGED <<probe, lastRead>>

(***************************************************************************)
(* installBackend / pullModel: one call consuming the /install or /pull    *)
(* event stream, with the pause / cancel listeners of the Download Manager *)
(***************************************************************************)

\* Lines the stream delivers to one call before it ends.
MaxLines == 5

\* Names carried by `event:` lines; "started" stands for any unrecognised name.
EventNames == {"progress", "complete", "error", "started"}
\* Payload of a `data:` line: a JSON object, the JSON value null, or text
\* that JSON.parse rejects.
Payloads == {"object", "null", "malformed"}
Lines == [t : {"event"}, v : EventNames] \cup [t : {"data"}, v : Payloads]
           \cup {[t |-> "blank", v |-> ""], [t |-> "other", v |-> ""]}

IdleXfer == [pc |-> "idle", kind |-> "pull", downloadId |-> FALSE,
             isPaused |-> FALSE, isCancelled |-> FALSE, downloadCompleted |-> FALSE,
             aborted |-> FALSE, currentEventType |-> "progress",
             outcome |-> "pending", trackerCalls |-> <<>>,
             progress |-> 0, updated |-> 0, cleanup |-> 0]

IdleHistory == [lines |-> 0, completeSeen |-> FALSE, errorData |-> FALSE,
                errorAfterComplete |-> FALSE, progressAfterAbort |-> FALSE,
                progressAfterComplete |-> FALSE,
                refEvent |-> "progress", blankReset |-> FALSE,
                skipped |-> "none", endedBy |-> "none"]

InitXfer ==
    /\ xf = IdleXfer
    /\ xg = IdleHistory

xferFrame == UNCHANGED <<engineVars, bmVars, obsVars, pfVars, emrVars, verVars, liveVars,
                       flightVars, chatVars>>

\* `if (downloadId) downloadTracker.<call>(downloadId)`: the terminal calls
\* (completeDownload, failDownload, pauseDownload, cancelDownload) made on
\* the entry the call registered are recorded in order.
TrackerCall(s, call) ==
    IF s.downloadId
    THEN [s EXCEPT !.trackerCalls = Append(s.trackerCalls, call)]
    ELSE s

\* `finally`: the listeners are removed and the promise settles.
Settle(s, outcome) == [s EXCEPT !.pc = "settled", !.outcome = outcome]

\* The code after the read loop: EOF without a `complete` event still marks
\* the transfer completed; the updated event is dispatched and the call resolves.
AfterLoop(s) ==
    LET s1 == IF ~s.downloadCompleted THEN TrackerCall(s, "completeDownload") ELSE s
    IN Settle([s1 EXCEPT !.updated = s1.updated + 1], "resolved")

\* The outer `catch (error)`.
OuterCatch(s, errName) ==
    IF s.downloadCompleted
    THEN Settle([s EXCEPT !.updated = s.updated + 1], "resolved")
    ELSE IF errName = "AbortError"
    THEN IF s.isPaused /\ s.downloadId
         THEN Settle(TrackerCall(s, "pauseDownload"), "DownloadAbortError:paused")
         ELSE Settle([TrackerCall(s, "cancelDownload") EXCEPT !.cleanup = s.cleanup + 1],
                     "DownloadAbortError:cancelled")
    ELSE Settle(TrackerCall(s, "failDownload"), "Error")

\* The inner `catch (streamError)` around the read loop: swallowed once the
\* complete event was seen, rethrown to the outer catch otherwise.
InnerCatch(s, errName) ==
    IF ~s.downloadCompleted THEN OuterCatch(s, errName) ELSE AfterLoop(s)

\* A faulty handler that marks the tracker entry on `complete` but does not
\* remember that the complete event was seen.
HandleDataForgetsComplete(s, payload) ==
    IF s.currentEventType = "progress" /\ s.downloadId
    THEN [s EXCEPT !.progress = s.progress + 1]
    ELSE IF s.currentEventType = "complete"
    THEN TrackerCall(s, "completeDownload")
    ELSE IF s.currentEventType = "error"
    THEN IF payload = "null"
         THEN InnerCatch(s, "TypeError")
         ELSE InnerCatch(TrackerCall(s, "failDownload"), "Error")
    ELSE s

\* The body run for a `data:` line whose payload parsed.
HandleData(s, payload) ==
    IF s.currentEventType = "progress" /\ s.downloadId
    THEN [s EXCEPT !.progress = s.progress + 1]
    ELSE IF s.currentEventType = "complete"
    THEN [TrackerCall(s, "completeDownload") EXCEPT !.downloadCompleted = TRUE]
    ELSE IF s.currentEventType = "error"
    THEN IF payload = "null"
         THEN InnerCatch(s, "TypeError")
         ELSE InnerCatch(TrackerCall(s, "failDownload"), "Error")
    ELSE s

\* A faulty parser that keeps the event name across a blank line.
ProcessLineKeepsEventName(s, line) ==
    IF line.t = "event" THEN [s EXCEPT !.currentEventType = line.v]
    ELSE IF line.t = "data"
    THEN IF line.v = "malformed" THEN s ELSE HandleData(s, line.v)
    ELSE s

\* One line of the `for (const line of lines)` loop.  A payload JSON.parse
\* rejects is logged and skipped, whatever the current event name is.
ProcessLine(s, line) ==
    IF line.t = "event" THEN [s EXCEPT !.currentEventType = line.v]
    ELSE IF line.t = "data"
    THEN IF line.v = "malformed" THEN s ELSE HandleData(s, line.v)
    ELSE IF line.t = "blank" THEN [s EXCEPT !.currentEventType = "progress"]
    ELSE s

\* installBackend(recipe, backend, show) / pullModel(name, {show}) is
\* called: the transfer is registered when shown, the listeners are added
\* and the request is sent.
XStart(kind, show) ==
    /\ xf.pc \in {"idle", "settled"}
    /\ xf' = [IdleXfer EXCEPT !.pc = "fetching", !.kind = kind, !.downloadId = show]
    /\ xg' = IdleHistory
    /\ xferFrame

\* `await serverFetch(...)` gave an ok response with a body.
XFetchOk ==
    /\ xf.pc = "fetching" /\ ~xf.aborted
    /\ xf' = [xf EXCEPT !.pc = "reading"]
    /\ xg' = [xg EXCEPT !.skipped = "none"]
    /\ xferFrame

\* The request failed: network error, a non-ok status or no response body.
XFetchFail ==
    /\ xf.pc = "fetching" /\ ~xf.aborted
    /\ xf' = OuterCatch(xf, "Error")
    /\ xg' = [xg EXCEPT !.endedBy = "fetch_error", !.skipped = "none"]
    /\ xferFrame

\* The signal was aborted while the request was pending.
XFetchAborted ==
    /\ xf.pc = "fetching" /\ xf.aborted
    /\ xf' = OuterCatch(xf, "AbortError")
    /\ xg' = [xg EXCEPT !.endedBy = "abort", !.skipped = "none"]
    /\ xferFrame

\* `await reader.read()` delivered the next line of the stream.
XReadLine(line) ==
    /\ xf.pc = "reading" /\ ~xf.aborted
    /\ xg.lines < MaxLines
    /\ xf' = ProcessLine(xf, line)
    /\ xg' = [xg EXCEPT
         !.lines = xg.lines + 1,
         !.completeSeen = xg.completeSeen
             \/ (line.t = "data" /\ line.v # "malformed" /\ xf.currentEventType = "complete"),
         !.errorData = xg.errorData \/ (line.t = "data" /\ xf.currentEventType = "error"),
         !.errorAfterComplete = xg.errorAfterComplete
             \/ (line.t = "data" /\ line.v # "malformed"
                   /\ xf.currentEventType = "error" /\ xg.completeSeen),
         !.progressAfterAbort = xg.progressAfterAbort
             \/ (xf.aborted /\ ProcessLine(xf, line).progress # xf.progress),
         !.progressAfterComplete = xg.progressAfterComplete
             \/ (xf.downloadCompleted /\ ProcessLine(xf, line).progress # xf.progress),
         !.refEvent = IF line.t = "event" THEN line.v
                      ELSE IF line.t = "blank" THEN "progress" ELSE xg.refEvent,
         !.blankReset = xg.blankReset \/ (line.t = "blank" /\ xg.refEvent # "progress"),
         !.skipped = IF line.t = "data" /\ line.v = "malformed"
                     THEN xf.currentEventType ELSE "none",
         !.endedBy = IF ProcessLine(xf, line).pc = "settled" THEN "error_frame" ELSE xg.endedBy]
    /\ xferFrame

\* reader.read() reported done.
XReadDone ==
    /\ xf.pc = "reading" /\ ~xf.aborted
    /\ xf' = AfterLoop(xf)
    /\ xg' = [xg EXCEPT !.endedBy = "eof", !.skipped = "none"]
    /\ xferFrame

\* reader.read() rejected with a transport error (connection reset).
XReadError ==
    /\ xf.pc = "reading" /\ ~xf.aborted
    /\ xf' = InnerCatch(xf, "TypeError")
    /\ xg' = [xg EXCEPT !.endedBy = "read_error", !.skipped = "none"]
    /\ xferFrame

\* reader.read() rejected because the signal was aborted.
XReadAborted ==
    /\ xf.pc = "reading" /\ xf.aborted
    /\ xf' = InnerCatch(xf, "AbortError")
    /\ xg' = [xg EXCEPT !.endedBy = "abort", !.skipped = "none"]
    /\ xferFrame

\* handleCancel: a download:cancelled event; `mine` says whether its
\* modelName is this call's display name.
XCancelEvent(mine) ==
    /\ xf.pc \in {"fetching", "reading"}
    /\ xf' = IF mine THEN [xf EXCEPT !.isCancelled = TRUE, !.aborted = TRUE] ELSE xf
    /\ xg' = [xg EXCEPT !.skipped = "none"]
    /\ xferFrame

\* handlePause: a download:paused event.
XPauseEvent(mine) ==
    /\ xf.pc \in {"fetching", "reading"}
    /\ xf' = IF mine THEN [xf EXCEPT !.isPaused = TRUE, !.aborted = TRUE] ELSE xf
    /\ xg' = [xg EXCEPT !.skipped = "none"]
    /\ xferFrame

NextXfer ==
    \/ \E kind \in {"pull", "install"}, show \in BOOLEAN : XStart(kind, show)
    \/ XFetchOk
    \/ XFetchFail
    \/ XFetchAborted
    \/ \E line \in Lines : XReadLine(line)
    \/ XReadDone
    \/ XReadError
    \/ XReadAborted
    \/ \E mine \in BOOLEAN : XCancelEvent(mine)
    \/ \E mine \in BOOLEAN : XPauseEvent(mine)

(***************************************************************************)
(* useInferenceState: runPreFlight / reset, as driven by the panels        *)
(***************************************************************************)

\* Handlers of the panels that call runPreFlight (send, edit, mic start ...).
Callers == {"h1", "h2", "h3"}
Modalities == {"llm", "speech"}
NoModality == "null"

IdleCaller == [pc |-> "idle", modality |-> NoModality, ret |-> "none",
               rejected |-> FALSE, onError |-> 0]

InitPF ==
    /\ phaseRef = "idle"
    /\ activeModality = NoModality
    /\ pf = [c \in Callers |-> IdleCaller]

pfFrame == UNCHANGED <<engineVars, bmVars, obsVars, xferVars, emrVars, verVars, liveVars,
                       flightVars, chatVars>>

\* A runPreFlight without its re-entry guard.
GuardRemoved == FALSE

\* The re-entry guard of runPreFlight: `phaseRef.current !== 'idle'`.
PreFlightBusy == phaseRef # "idle"

\* runPreFlight(modality, ...) up to `await ensureModelReady(...)`: a call
\* that finds the guard set returns false at once; otherwise the phase and
\* the modality are set and ensureModelReady is started.
RunPreFlight(c, m) ==
    /\ pf[c].pc = "idle"
    /\ IF PreFlightBusy
       THEN /\ pf' = [pf EXCEPT ![c] = [IdleCaller EXCEPT !.pc = "returned", !.modality = m,
                                                         !.ret = "false", !.rejected = TRUE]]
            /\ UNCHANGED <<phaseRef, activeModality>>
       ELSE /\ phaseRef' = "pre_flight"
            /\ activeModality' = m
            /\ pf' = [pf EXCEPT ![c] = [IdleCaller EXCEPT !.pc = "pre_flight", !.modality = m]]
    /\ pfFrame

\* ensureModelReady resolved: setPhaseSync('inferring'); return true.
PreFlightReady(c) ==
    /\ pf[c].pc = "pre_flight"
    /\ phaseRef' = "inferring"
    /\ pf' = [pf EXCEPT ![c].pc = "inferring", ![c].ret = "true"]
    /\ UNCHANGED activeModality
    /\ pfFrame

\* A catch block that reports every rejection, aborts included.
PreFlightFailedAlwaysReports(c, aborted) ==
    /\ pf[c].pc = "pre_flight"
    /\ phaseRef' = "idle"
    /\ activeModality' = NoModality
    /\ pf' = [pf EXCEPT ![c].pc = "returned", ![c].ret = "false", ![c].onError = 1]
    /\ pfFrame

\* ensureModelReady rejected: back to idle; onError is called unless the
\* error is a DownloadAbortError; return false.
PreFlightFailed(c, aborted) ==
    /\ pf[c].pc = "pre_flight"
    /\ phaseRef' = "idle"
    /\ activeModality' = NoModality
    /\ pf' = [pf EXCEPT ![c].pc = "returned", ![c].ret = "false",
                        ![c].onError = IF aborted THEN 0 ELSE 1]
    /\ pfFrame

\* The panel's request ended (response, error, abort, stream close, mic
\* stop): its handler calls reset().
InferenceEnd(c) ==
    /\ pf[c].pc = "inferring"
    /\ phaseRef' = "idle"
    /\ activeModality' = NoModality
    /\ pf' = [pf EXCEPT ![c].pc = "returned"]
    /\ pfFrame

\* ChatWindow.handleNewChat: reset(); the button is disabled while busy.
NewChat ==
    /\ phaseRef = "idle"
    /\ phaseRef' = "idle"
    /\ activeModality' = NoModality
    /\ UNCHANGED pf
    /\ pfFrame

\* The handler has returned and can be invoked again.
HandlerReturn(c) ==
    /\ pf[c].pc = "returned"
    /\ pf' = [pf EXCEPT ![c] = IdleCaller]
    /\ UNCHANGED <<phaseRef, activeModality>>
    /\ pfFrame

NextPF ==
    \/ \E c \in Callers, m \in Modalities : RunPreFlight(c, m)
    \/ \E c \in Callers : PreFlightReady(c)
    \/ \E c \in Callers, aborted \in BOOLEAN : PreFlightFailed(c, aborted)
    \/ \E c \in Callers : InferenceEnd(c)
    \/ NewChat
    \/ \E c \in Callers : HandlerReturn(c)

\* useInferenceState.reset(), called by any holder of the hook's result at
\* any time: setPhaseSync('idle'); setActiveModality(null).
reset ==
    /\ phaseRef' = "idle"
    /\ activeModality' = NoModality
    /\ UNCHANGED pf
    /\ pfFrame

\* The hook by itself: runPreFlight calls and reset() calls in any order.
NextHook ==
    \/ \E c \in Callers, m \in Modalities : RunPreFlight(c, m)
    \/ \E c \in Callers : PreFlightReady(c)
    \/ \E c \in Callers, aborted \in BOOLEAN : PreFlightFailed(c, aborted)
    \/ reset
    \/ \E c \in Callers : HandlerReturn(c)

(***************************************************************************)
(* TranscriptionPanel: live microphone recording on the inference state    *)
(* shared with the request handlers of the panels                          *)
(***************************************************************************)

IdleLive == [pc |-> "idle", socket |-> "none"]

InitLive == live = IdleLive

liveFrame == UNCHANGED <<engineVars, bmVars, obsVars, xferVars, emrVars, verVars,
                         flightVars, chatVars>>

\* handleMicStart up to `await runPreFlight('transcription', ...)`: a click
\* that finds the re-entry guard set returns with nothing changed.
MicStart ==
    /\ live.pc = "idle"
    /\ ~PreFlightBusy
    /\ phaseRef' = "pre_flight"
    /\ activeModality' = "transcription"
    /\ live' = [live EXCEPT !.pc = "pre_flight"]
    /\ UNCHANGED pf
    /\ liveFrame

\* runPreFlight returned true: TranscriptionWebSocket.connect is started.
MicPreFlightReady ==
    /\ live.pc = "pre_flight"
    /\ phaseRef' = "inferring"
    /\ live' = [pc |-> "connecting", socket |-> "none"]
    /\ UNCHANGED <<activeModality, pf>>
    /\ liveFrame

\* runPreFlight returned false: `if (!ready) return`.
MicPreFlightFailed ==
    /\ live.pc = "pre_flight"
    /\ phaseRef' = "idle"
    /\ activeModality' = NoModality
    /\ live' = [live EXCEPT !.pc = "idle"]
    /\ UNCHANGED pf
    /\ liveFrame

\* connect() or startRecording() rejected: the catch calls reset().
MicConnectFailed ==
    /\ live.pc = "connecting"
    /\ phaseRef' = "idle"
    /\ activeModality' = NoModality
    /\ live' = [pc |-> "idle", socket |-> "closed"]
    /\ UNCHANGED pf
    /\ liveFrame

\* connect() and startRecording() resolved: isLiveRecording is set and the
\* handler returns; the phase stays `inferring` while recording.
MicRecording ==
    /\ live.pc = "connecting"
    /\ live' = [live EXCEPT !.pc = "recording"]
    /\ UNCHANGED pfVars
    /\ liveFrame

\* onConnected: setIsLiveConnected(true).
WsConnected ==
    /\ live.pc \in {"connecting", "recording"}
    /\ live.socket = "none"
    /\ live' = [live EXCEPT !.socket = "open"]
    /\ UNCHANGED pfVars
    /\ liveFrame

\* onDisconnected: the socket closed; setIsLiveConnected(false) and nothing
\* else.
WsDisconnected ==
    /\ live.pc \in {"connecting", "recording"}
    /\ live.socket = "open"
    /\ live' = [live EXCEPT !.socket = "closed"]
    /\ UNCHANGED pfVars
    /\ liveFrame

\* handleMicStop: the user clicks the microphone button while recording;
\* the recording is torn down and reset() is called.
MicStop ==
    /\ live.pc = "recording"
    /\ phaseRef' = "idle"
    /\ activeModality' = NoModality
    /\ live' = [pc |-> "idle", socket |-> "closed"]
    /\ UNCHANGED pf
    /\ liveFrame

PanelStep ==
    /\ NextPF
    /\ UNCHANGED live

NextLive ==
    \/ PanelStep
    \/ MicStart
    \/ MicPreFlightReady
    \/ MicPreFlightFailed
    \/ MicConnectFailed
    \/ MicRecording
    \/ WsConnected
    \/ WsDisconnected
    \/ MicStop

\* What the event loop guarantees: an awaited promise that settles resumes
\* its handler (ensureModelReady, the panel's request, connect) and the
\* events of the socket are delivered, its closing included.  Clicks of the
\* user are not guaranteed.
FairLive ==
    /\ WF_vars(\E c \in Callers : PreFlightReady(c) \/ PreFlightFailed(c, FALSE))
    /\ WF_vars(\E c \in Callers : InferenceEnd(c))
    /\ WF_vars(MicPreFlightReady \/ MicPreFlightFailed)
    /\ WF_vars(MicRecording \/ MicConnectFailed)
    /\ WF_vars(WsConnected \/ WsDisconnected)

(***************************************************************************)
(* ensureModelReady: the pre-flight of every inference request, as called  *)
(* by runPreFlight, useTTS (no options) and handleLoadModel (Load Options) *)
(***************************************************************************)

\* Load options of the request, relative to a loaded instance of the model:
\* none given, the ones it was loaded with, or different ones.
OptionKinds == {"none", "same", "diff"}

\* A caller that never asks to skip the health check.
NeverSkipHealthCheck(opts) == FALSE

\* handleLoadModel: `skipHealthCheck: !!options`; the other callers pass no
\* options and no skipHealthCheck.
SkipHealthCheck(opts) == opts # "none"

\* Ways an /install or /pull stream can end.
Endings == {"complete", "eof", "error", "paused", "cancelled"}

\* How installBackend(recipe, backend, true) / pullModel(modelName) settles
\* on each ending of its stream.
StreamOutcome(ending) ==
    LET s0 == [IdleXfer EXCEPT !.pc = "reading", !.downloadId = TRUE]
    IN CASE ending = "complete" ->
              AfterLoop(HandleData([s0 EXCEPT !.currentEventType = "complete"], "object")).outcome
         [] ending = "eof" -> AfterLoop(s0).outcome
         [] ending = "error" ->
              HandleData([s0 EXCEPT !.currentEventType = "error"], "object").outcome
         [] ending = "paused" ->
              InnerCatch([s0 EXCEPT !.isPaused = TRUE, !.aborted = TRUE], "AbortError").outcome
         [] ending = "cancelled" ->
              InnerCatch([s0 EXCEPT !.isCancelled = TRUE, !.aborted = TRUE], "AbortError").outcome

\* What the fresh system info says of the backend the pre-flight uses:
\* its state, "other" for any further state string, "absent" when the
\* backend has no entry, "no_default" when the recipe names no default
\* backend, "no_recipes" when the recipes (or the recipe) are missing.
BackendStates == {"installed", "installable", "update_required", "unsupported",
                  "other", "absent", "no_default", "no_recipes"}

\* A backend step that installs whatever is not installed.
BackendStepInstallsUnsupported(explicit, state) ==
    IF state \in {"installable", "update_required", "unsupported"} THEN "install"
    ELSE IF state \in {"absent", "no_default"} THEN "error"
    ELSE "continue"

\* Step 3 of ensureModelReady: the explicit-backend branch, or
\* ensureBackendForRecipe for the recipe's default backend.
BackendStep(explicit, state) ==
    IF explicit
    THEN IF state \in {"absent", "no_default", "no_recipes"} THEN "error"
         ELSE IF state \in {"installable", "update_required"} THEN "install"
         ELSE IF state = "unsupported" THEN "error"
         ELSE "continue"
    ELSE IF state = "no_recipes" THEN "continue"
         ELSE IF state \in {"no_default", "absent"} THEN "error"
         ELSE IF state = "installed" THEN "continue"
         ELSE IF state \in {"installable", "update_required"} THEN "install"
         ELSE "error"

IdleEmr == [pc |-> "idle", opts |-> "none", explicit |-> FALSE, hasRecipe |-> FALSE,
            downloaded |-> FALSE, srvLoaded |-> FALSE, bstate |-> "unknown",
            health |-> "none", fast |-> FALSE, result |-> "pending", log |-> <<>>]

InitEMR == emr = IdleEmr

emrFrame == UNCHANGED <<engineVars, bmVars, obsVars, xferVars, pfVars, verVars, liveVars,
                       flightVars, chatVars>>

EmrDone(e, res) == [e EXCEPT !.pc = "done", !.result = res]

\* The rejection a failed installBackend / pullModel call passes on.
Rejection(outcome) == IF outcome = "Error" THEN "error" ELSE "abort"

\* Step 4 onwards: a model the caller's modelsData shows as downloaded goes
\* to /load; otherwise /models?show_all=true is asked first.
AfterBackend(e) ==
    IF e.downloaded THEN [e EXCEPT !.pc = "load"] ELSE [e EXCEPT !.pc = "recheck"]

\* Step 3 is entered: system info is fetched when the model has a recipe.
AfterHealth(e) ==
    IF e.hasRecipe THEN [e EXCEPT !.pc = "sysinfo"] ELSE AfterBackend(e)

\* ensureModelReady(modelName, modelsData, options) is called.
EmrStart(opts, explicit, hasRecipe, downloaded, srvLoaded) ==
    /\ emr.pc = "idle"
    /\ explicit => opts # "none"
    /\ LET e == [IdleEmr EXCEPT !.opts = opts, !.explicit = explicit,
                                !.hasRecipe = hasRecipe, !.downloaded = downloaded,
                                !.srvLoaded = srvLoaded]
       IN emr' = IF SkipHealthCheck(opts) THEN AfterHealth([e EXCEPT !.health = "skipped"])
                 ELSE [e EXCEPT !.pc = "health"]
    /\ emrFrame

\* Step 1: GET /health answered (or failed); a model listed in
\* all_models_loaded ends the pre-flight at once.
EmrHealth(answered) ==
    /\ emr.pc = "health"
    /\ LET e == [emr EXCEPT !.health = IF answered THEN "answered" ELSE "failed"]
       IN emr' = IF answered /\ emr.srvLoaded
                 THEN [EmrDone(e, "ok") EXCEPT !.fast = TRUE]
                 ELSE AfterHealth(e)
    /\ emrFrame

\* Step 3: fetchSystemInfoData() returned; the backend is checked and, when
\* it has to be installed, the /install stream is opened.
EmrSysInfo(state) ==
    /\ emr.pc = "sysinfo"
    /\ LET e == [emr EXCEPT !.bstate = state]
           step == BackendStep(emr.explicit, state)
       IN emr' = IF step = "error" THEN EmrDone(e, "error")
                 ELSE IF step = "install"
                 THEN [e EXCEPT !.pc = "install", !.log = Append(e.log, <<"install", "open">>)]
                 ELSE AfterBackend(e)
    /\ emrFrame

\* `await installBackend(...)` settled.
EmrInstallEnd(ending) ==
    /\ emr.pc = "install"
    /\ LET e == [emr EXCEPT !.log = Append(emr.log, <<"install", ending>>)]
       IN emr' = IF StreamOutcome(ending) = "resolved" THEN AfterBackend(e)
                 ELSE EmrDone(e, Rejection(StreamOutcome(ending)))
    /\ emrFrame

\* Step 4: /models?show_all=true answered with the model downloaded, or
\* not / failed; in the latter case the /pull stream is opened.
EmrRecheck(freshDownloaded) ==
    /\ emr.pc = "recheck"
    /\ emr' = IF freshDownloaded THEN [emr EXCEPT !.pc = "load"]
              ELSE [emr EXCEPT !.pc = "pull", !.log = Append(emr.log, <<"pull", "open">>)]
    /\ emrFrame

\* Step 5: `await pullModel(modelName)` settled.
EmrPullEnd(ending) ==
    /\ emr.pc = "pull"
    /\ LET e == [emr EXCEPT !.log = Append(emr.log, <<"pull", ending>>)]
       IN emr' = IF StreamOutcome(ending) = "resolved" THEN [e EXCEPT !.pc = "load"]
                 ELSE EmrDone(e, Rejection(StreamOutcome(ending)))
    /\ emrFrame

\* Answers to POST /load: ok, an error whose message contains
\* model_invalidated or not found, or any other error.
LoadAnswers == {"ok", "invalidated", "other_error"}

\* Step 6, first POST /load; an invalidated model is pulled again.
EmrLoad(answer) ==
    /\ emr.pc = "load"
    /\ LET e == [emr EXCEPT !.log = Append(emr.log, <<"load", answer>>)]
       IN emr' = IF answer = "ok" THEN EmrDone(e, "ok")
                 ELSE IF answer = "invalidated"
                 THEN [e EXCEPT !.pc = "repull", !.log = Append(e.log, <<"pull", "open">>)]
                 ELSE EmrDone(e, "error")
    /\ emrFrame

\* The re-pull settled.
EmrRepullEnd(ending) ==
    /\ emr.pc = "repull"
    /\ LET e == [emr EXCEPT !.log = Append(emr.log, <<"pull", ending>>)]
       IN emr' = IF StreamOutcome(ending) = "resolved" THEN [e EXCEPT !.pc = "retry"]
                 ELSE EmrDone(e, Rejection(StreamOutcome(ending)))
    /\ emrFrame

\* The second POST /load: its failure is thrown.
EmrRetryLoad(answer) ==
    /\ emr.pc = "retry"
    /\ LET e == [emr EXCEPT !.log = Append(emr.log, <<"load", answer>>)]
       IN emr' = EmrDone(e, IF answer = "ok" THEN "ok" ELSE "error")
    /\ emrFrame

\* The caller takes the result; the next pre-flight can start.
EmrReturn ==
    /\ emr.pc = "done"
    /\ emr' = IdleEmr
    /\ emrFrame

NextEMR ==
    \/ \E opts \in OptionKinds, explicit, hasRecipe, downloaded, srvLoaded \in BOOLEAN :
          EmrStart(opts, explicit, hasRecipe, downloaded, srvLoaded)
    \/ \E answered \in BOOLEAN : EmrHealth(answered)
    \/ \E state \in BackendStates : EmrSysInfo(state)
    \/ \E ending \in Endings : EmrInstallEnd(ending)
    \/ \E fresh \in BOOLEAN : EmrRecheck(fresh)
    \/ \E ending \in Endings : EmrPullEnd(ending)
    \/ \E answer \in LoadAnswers : EmrLoad(answer)
    \/ \E ending \in Endings : EmrRepullEnd(ending)
    \/ \E answer \in LoadAnswers : EmrRetryLoad(answer)
    \/ EmrReturn

\* runPreFlight with the ensureModelReady it awaits: the call is made with
\* no options once the phase is pre_flight, its steps run while the handler
\* waits, and the way it settles decides between the catch block and
\* `setPhaseSync('inferring')`; the settled promise is consumed before the
\* handlers go on, a pre-flight starts once the handlers of the previous
\* one have returned, and the calls that find the guard set are taken
\* between the steps of ensureModelReady.
PreFlightWaiting == \E c \in Callers : pf[c].pc = "pre_flight"

NextPreFlight ==
    \/ \E c \in Callers, m \in Modalities :
          /\ emr.pc = "idle"
          /\ PreFlightBusy \/ \A d \in Callers : pf[d].pc = "idle"
          /\ RunPreFlight(c, m)
    \/ \E hasRecipe, downloaded, srvLoaded \in BOOLEAN :
          /\ PreFlightWaiting
          /\ EmrStart("none", FALSE, hasRecipe, downloaded, srvLoaded)
    \/ \E answered \in BOOLEAN : EmrHealth(answered)
    \/ \E state \in BackendStates : EmrSysInfo(state)
    \/ \E ending \in Endings : EmrInstallEnd(ending)
    \/ \E fresh \in BOOLEAN : EmrRecheck(fresh)
    \/ \E ending \in Endings : EmrPullEnd(ending)
    \/ \E answer \in LoadAnswers : EmrLoad(answer)
    \/ \E ending \in Endings : EmrRepullEnd(ending)
    \/ \E answer \in LoadAnswers : EmrRetryLoad(answer)
    \/ \E c \in Callers :
          /\ emr.pc = "done" /\ emr.result = "ok"
          /\ PreFlightReady(c)
    \/ \E c \in Callers :
          /\ emr.pc = "done" /\ emr.result # "ok"
          /\ PreFlightFailed(c, emr.result = "abort")
    \/ ~PreFlightWaiting /\ EmrReturn
    \/ \E c \in Callers : emr.pc # "done" /\ InferenceEnd(c)
    \/ emr.pc # "done" /\ NewChat
    \/ \E c \in Callers : emr.pc # "done" /\ HandlerReturn(c)

(***************************************************************************)
(* The entry points of ensureModelReady in the renderer: runPreFlight      *)
(* (useInferenceState), handleLoadModel (Model Manager) and                *)
(* handleTextToSpeech (useTTS, the inline audio buttons)                   *)
(***************************************************************************)

Models == {"A", "B"}
NoModel == "none"

\* Audio buttons of the chat messages.
AudioButtons == {"b1", "b2"}

IdleFlight == [pc |-> "idle", model |-> NoModel]

\* load: the models in loadingModels, each with a handleLoadModel awaiting
\* ensureModelReady; tts: per audio button the model its handleTextToSpeech
\* is preparing; pre: per handler the ensureModelReady its runPreFlight
\* awaits.
InitFlights ==
    flights = [load |-> {},
               tts  |-> [b \in AudioButtons |-> NoModel],
               pre  |-> [c \in Callers |-> IdleFlight]]

flightFrame == UNCHANGED <<engineVars, bmVars, obsVars, xferVars, pfVars, emrVars, verVars,
                           liveVars, chatVars>>

\* Model Manager, Load button of a model row (shown unless the model is
\* loaded or in loadingModels): handleLoadModel adds the model to
\* loadingModels and awaits ensureModelReady.
LoadModel(x) ==
    /\ x \notin flights.load
    /\ flights' = [flights EXCEPT !.load = @ \cup {x}]
    /\ flightFrame

\* handleLoadModel: ensureModelReady settled; modelLoadEnd takes the model
\* out of loadingModels.
LoadModelEnd(x) ==
    /\ x \in flights.load
    /\ flights' = [flights EXCEPT !.load = @ \ {x}]
    /\ flightFrame

\* handleAudioButtonClick on a button other than the pressed one:
\* handleTextToSpeech awaits ensureModelReady for the TTS model of the
\* settings.
TextToSpeech(b, x) ==
    /\ flights.tts[b] = NoModel
    /\ flights' = [flights EXCEPT !.tts[b] = x]
    /\ flightFrame

\* handleTextToSpeech: its ensureModelReady settled.
TextToSpeechEnd(b) ==
    /\ flights.tts[b] # NoModel
    /\ flights' = [flights EXCEPT !.tts[b] = NoModel]
    /\ flightFrame

\* runPreFlight past its guard: ensureModelReady(modelName, ...) is called.
PreFlightEnsure(c, x) ==
    /\ pf[c].pc = "pre_flight"
    /\ flights.pre[c].pc = "idle"
    /\ flights' = [flights EXCEPT !.pre[c] = [pc |-> "running", model |-> x]]
    /\ flightFrame

\* The ensureModelReady awaited by runPreFlight settled.
PreFlightEnsureEnd(c, ok) ==
    /\ flights.pre[c].pc = "running"
    /\ flights' = [flights EXCEPT !.pre[c].pc = IF ok THEN "resolved" ELSE "rejected"]
    /\ flightFrame

\* runPreFlight has returned: its promise is gone.
PreFlightEnsureDrop(c) ==
    /\ pf[c].pc # "pre_flight"
    /\ flights.pre[c].pc \in {"resolved", "rejected"}
    /\ flights' = [flights EXCEPT !.pre[c] = IdleFlight]
    /\ flightFrame

\* The three entry points side by side; runPreFlight goes on when the
\* ensureModelReady it awaits has settled.  The runPreFlight calls that find
\* the guard set start no ensureModelReady and are left to NextPF.
NextFlights ==
    \/ \E x \in Models : LoadModel(x)
    \/ \E x \in Models : LoadModelEnd(x)
    \/ \E b \in AudioButtons, x \in Models : TextToSpeech(b, x)
    \/ \E b \in AudioButtons : TextToSpeechEnd(b)
    \/ \E c \in Callers, m \in Modalities :
          /\ flights.pre[c].pc = "idle"
          /\ \A d \in Callers : pf[d].pc = "idle"
          /\ RunPreFlight(c, m)
    \/ \E c \in Callers, x \in Models : PreFlightEnsure(c, x)
    \/ \E c \in Callers, ok \in BOOLEAN : PreFlightEnsureEnd(c, ok)
    \/ \E c \in Callers : flights.pre[c].pc = "resolved" /\ PreFlightReady(c)
    \/ \E c \in Callers, aborted \in BOOLEAN :
          flights.pre[c].pc = "rejected" /\ PreFlightFailed(c, aborted)
    \/ \E c \in Callers : PreFlightEnsureDrop(c)
    \/ \E c \in Callers : flights.pre[c].pc = "idle" /\ InferenceEnd(c)
    \/ NewChat
    \/ \E c \in Callers : flights.pre[c].pc = "idle" /\ HandlerReturn(c)

(***************************************************************************)
(* LLMChatPanel.handleStreamingResponse: the consumer of the chat          *)
(* completion stream                                                       *)
(***************************************************************************)

\* The response text is a sequence of characters.  "D" stands for the
\* prefix `data: `, "n" for the line feed; "{", "a", "}" make up the JSON
\* payloads: `{` a... `}` is a chunk object whose delta.content is the
\* letters between the braces.
ChatChars == {"D", "{", "a", "}", "n"}

MaxChatLen == 4

ChatStreams == UNION {[1..n -> ChatChars] : n \in 0..MaxChatLen}

\* chunk.split('\n')
RECURSIVE split_lines(_)
split_lines(s) ==
    IF s = <<>> THEN << <<>> >>
    ELSE LET rest == split_lines(Tail(s))
         IN IF Head(s) = "n" THEN << <<>> >> \o rest
            ELSE << <<Head(s)>> \o Head(rest) >> \o Tail(rest)

\* JSON.parse(data) succeeds.
JsonParses(data) ==
    /\ Len(data) >= 2
    /\ data[1] = "{"
    /\ data[Len(data)] = "}"
    /\ \A i \in 2..(Len(data) - 1) : data[i] = "a"

\* parsed.choices?.[0]?.delta?.content
delta_content(data) == SubSeq(data, 2, Len(data) - 1)

\* The body of `for (const line of lines)`: what the line adds to
\* accumulatedContent.  Lines without the prefix and empty payloads are
\* skipped; a payload JSON.parse rejects is warned about and skipped.
LineContent(line) ==
    IF line # <<>> /\ Head(line) = "D"
    THEN LET data == Tail(line)
         IN IF data = <<>> THEN <<>>
            ELSE IF JsonParses(data) THEN delta_content(data)
            ELSE <<>>
    ELSE <<>>

RECURSIVE LinesContent(_)
LinesContent(lines) ==
    IF lines = <<>> THEN <<>>
    ELSE LineContent(Head(lines)) \o LinesContent(Tail(lines))

\* The read loop: each chunk is decoded, split at line feeds and its lines
\* are handled; nothing is carried from one chunk to the next.
RECURSIVE handleStreamingResponse(_)
handleStreamingResponse(chunks) ==
    IF chunks = <<>> THEN <<>>
    ELSE LinesContent(split_lines(Head(chunks))) \o handleStreamingResponse(Tail(chunks))

IdleChat == [pc |-> "idle", stream |-> <<>>, cut |-> 0, whole |-> <<>>, parts |-> <<>>]

InitChat == chat = IdleChat

chatFrame == UNCHANGED <<engineVars, bmVars, obsVars, xferVars, pfVars, emrVars, verVars,
                         liveVars, flightVars>>

\* A response stream is consumed: delivered in one chunk, and delivered in
\* two chunks cut after `cut` characters.
ChatStream(stream, cut) ==
    /\ chat.pc = "idle"
    /\ chat' = [pc |-> "done", stream |-> stream, cut |-> cut,
                whole |-> handleStreamingResponse(<<stream>>),
                parts |-> handleStreamingResponse(<<SubSeq(stream, 1, cut),
                                                    SubSeq(stream, cut + 1, Len(stream))>>)]
    /\ chatFrame

\* The assistant message is final; the next message can be sent.
ChatReturn ==
    /\ chat.pc = "done"
    /\ chat' = IdleChat
    /\ chatFrame

NextChat ==
    \/ \E stream \in ChatStreams : \E cut \in 0..Len(stream) : ChatStream(stream, cut)
    \/ ChatReturn

(***************************************************************************)
(* utils::Version: parse, operator>=, operator==, to_string                *)
(***************************************************************************)

\* A string is the sequence of its characters.  Characters the version
\* strings of this model are made of: the prefix letters (a letter anywhere
\* else is a non-digit), two digits and the separator.
VerChars == {"v", "V", "0", "1", "."}

\* Longest version string compared.
MaxVerLen == 3

\* Version strings of the shapes the servers compare ("1.2.3", "v1.2.3").
NamedVersions ==
    {<<"v", "1", ".", "2">>, <<"1", ".", "2", ".", "0">>, <<"1", ".", "2">>,
     <<"1", ".", "2", ".", "3">>, <<"v", "1", ".", "1", "0">>, <<"v", "1", ".", "9">>}

VersionStrings == NamedVersions \cup UNION {[1..n -> VerChars] : n \in 0..MaxVerLen}

DigitChars == <<"0", "1", "2", "3", "4", "5", "6", "7", "8", "9">>

\* std::isdigit
isdigit(c) == \E i \in DOMAIN DigitChars : DigitChars[i] = c

DigitValue(c) == (CHOOSE i \in DOMAIN DigitChars : DigitChars[i] = c) - 1

\* Largest int; std::stoi throws std::out_of_range above it.
INT_MAX == 2147483647

\* The segments of s between the '.' characters, empty ones included.
RECURSIVE SplitDots(_)
SplitDots(s) ==
    IF \A i \in DOMAIN s : s[i] # "."
    THEN <<s>>
    ELSE LET d == CHOOSE i \in DOMAIN s : s[i] = "." /\ \A j \in 1..(i - 1) : s[j] # "."
         IN <<SubSeq(s, 1, d - 1)>> \o SplitDots(SubSeq(s, d + 1, Len(s)))

\* The parts `while (std::getline(ss, part, '.'))` delivers: none for an
\* empty string, and no empty part after a closing '.'.
getline_parts(s) ==
    IF s = <<>> THEN <<>>
    ELSE LET segs == SplitDots(s)
         IN IF segs[Len(segs)] = <<>> THEN SubSeq(segs, 1, Len(segs) - 1) ELSE segs

\* The loop over the characters of a part: its leading run of digits.
RECURSIVE numeric_prefix(_)
numeric_prefix(part) ==
    IF part = <<>> \/ ~isdigit(Head(part)) THEN <<>>
    ELSE <<Head(part)>> \o numeric_prefix(Tail(part))

RECURSIVE DecimalValue(_)
DecimalValue(digits) ==
    IF digits = <<>> THEN 0
    ELSE 10 * DecimalValue(SubSeq(digits, 1, Len(digits) - 1))
           + DigitValue(digits[Len(digits)])

\* `try { std::stoi(numeric) } catch (...) { 0 }`
stoi_or_zero(numeric) ==
    IF DecimalValue(numeric) > INT_MAX THEN 0 ELSE DecimalValue(numeric)

\* The parts pushed for a list of getline parts: one per part that has a
\* numeric prefix, none for the others.
RECURSIVE push_parts(_)
push_parts(segs) ==
    IF segs = <<>> THEN <<>>
    ELSE (IF numeric_prefix(Head(segs)) # <<>>
          THEN <<stoi_or_zero(numeric_prefix(Head(segs)))>> ELSE <<>>)
           \o push_parts(Tail(segs))

\* Version::parse: the parts_ of the parsed version.
parse(version_str) ==
    IF version_str = <<>> THEN <<>>
    ELSE LET working == IF Head(version_str) \in {"v", "V"}
                        THEN Tail(version_str) ELSE version_str
         IN push_parts(getline_parts(working))

\* `(i < parts.size()) ? parts[i] : 0`, positions counted from 1.
part_or_zero(parts, i) == IF i <= Len(parts) THEN parts[i] ELSE 0

max_len(p, q) == IF Len(p) >= Len(q) THEN Len(p) ELSE Len(q)

\* Version::operator>= on parts_: false when either side is empty, else
\* decided at the first position where the zero-padded lists differ.
operator_ge(p, q) ==
    IF p = <<>> \/ q = <<>> THEN FALSE
    ELSE LET diff == {i \in 1..max_len(p, q) : part_or_zero(p, i) # part_or_zero(q, i)}
         IN diff = {} \/ LET i == CHOOSE k \in diff : \A j \in diff : k <= j
                          IN part_or_zero(p, i) > part_or_zero(q, i)

\* Version::operator== on parts_.
operator_eq(p, q) ==
    IF Len(p) # Len(q)
    THEN \A i \in 1..max_len(p, q) : part_or_zero(p, i) = part_or_zero(q, i)
    ELSE p = q

\* std::to_string(int) for a non-negative int.
RECURSIVE int_to_string(_)
int_to_string(n) ==
    IF n < 10 THEN <<DigitChars[n + 1]>>
    ELSE int_to_string(n \div 10) \o <<DigitChars[(n % 10) + 1]>>

\* Version::to_string on parts_.
RECURSIVE to_string(_)
to_string(p) ==
    IF p = <<>> THEN <<>>
    ELSE IF Len(p) = 1 THEN int_to_string(p[1])
    ELSE to_string(SubSeq(p, 1, Len(p) - 1)) \o <<".">> \o int_to_string(p[Len(p)])

IdleVer == [pc |-> "idle", a |-> <<>>, b |-> <<>>, ge |-> FALSE, eq |-> FALSE,
            sa |-> <<>>, sb |-> <<>>]

InitVer == ver = IdleVer

verFrame == UNCHANGED <<engineVars, bmVars, obsVars, xferVars, pfVars, emrVars, liveVars,
                       flightVars, chatVars>>

\* A caller parses two version strings and compares and prints the results.
VersionCompare(a, b) ==
    /\ ver.pc = "idle"
    /\ ver' = [pc |-> "done", a |-> a, b |-> b,
               ge |-> operator_ge(parse(a), parse(b)),
               eq |-> operator_eq(parse(a), parse(b)),
               sa |-> to_string(parse(a)), sb |-> to_string(parse(b))]
    /\ verFrame

\* The caller is done with the results.
VersionReturn ==
    /\ ver.pc = "done"
    /\ ver' = IdleVer
    /\ verFrame

NextVer ==
    \/ ver.pc = "idle" /\ \E a, b \in VersionStrings : VersionCompare(a, b)
    \/ VersionReturn

(***************************************************************************)
(* Specifications                                                          *)
(***************************************************************************)

InitObs ==
    /\ probe = NoProbe
    /\ lastRead = <<>>
    /\ trail = <<>>

Init ==
    /\ InitEngine /\ InitBM /\ InitObs /\ InitXfer /\ InitPF /\ InitEMR /\ InitVer
    /\ InitLive /\ InitFlights /\ InitChat

SpecEngine == Init /\ [][NextEngine]_vars
SpecBM == Init /\ [][NextBM]_vars
SpecXfer == Init /\ [][NextXfer]_vars
SpecPF == Init /\ [][NextPF]_vars
SpecEMR == Init /\ [][NextEMR]_vars
SpecBMSeq == Init /\ [][NextBMSeq]_vars
SpecCache == Init /\ [][NextCache]_vars
SpecVer == Init /\ [][NextVer]_vars
SpecInstall == Init /\ [][NextInstall]_vars
SpecPreFlight == Init /\ [][NextPreFlight]_vars

SpecFlights == Init /\ [][NextFlights]_vars

SpecHook == Init /\ [][NextHook]_vars

SpecChat == Init /\ [][NextChat]_vars

SpecLive == Init /\ [][NextLive]_vars /\ FairLive

(***************************************************************************)
(* Properties                                                              *)
(***************************************************************************)

\* C1: at every moment each server object (SDServer, RyzenAIServer) has at
\* most one engine child process alive, whatever sequence of load() and
\* unload() calls ran, load() on a loaded server and failing loads included.
C1_AtMostOneEngineChild ==
    /\ Cardinality(sd_alive) <= 1
    /\ Cardinality(rz_alive) <= 1

\* install_backend / uninstall_backend calls on t that have not returned.
CallsInProgress(t) ==
    {p \in Procs : bm[p].target = t /\ bm[p].pc \notin {"idle", "done"}}

\* C2: whenever the recipes cache reports (r, b) as installed, the backend
\* executable of (r, b) exists on disk, under every interleaving of
\* install_backend and uninstall_backend calls from a cache agreeing with
\* the disk.  Stated here for the states in which no call on (r, b) is
\* under way, so that the window between a call's disk change and its own
\* cache update does not count.
C2_InstalledImpliesExecutable ==
    \A t \in DOMAIN cached_recipes_ :
        (cached_recipes_[t].state = "installed" /\ CallsInProgress(t) = {})
            => exe_exists(disk[t])

\* install_backend calls that are past their entry and have not returned.
InstallsInProgress(t) ==
    {p \in Procs : bm[p].op = "install" /\ bm[p].target = t
                     /\ bm[p].pc \in {"download", "flm_install", "update", "locked"}}

\* C3: two installs of the same (recipe, backend) never run in parallel: a
\* second request made while one is in progress is rejected.
C3_NoParallelInstall ==
    \A t \in Targets : Cardinality(InstallsInProgress(t)) <= 1

PreFlightsInFlight == {c \in Callers : pf[c].pc = "pre_flight"}

\* A step in which caller c enters runPreFlight while the phase is not idle.
BusyEntry(c) == pf[c].pc = "idle" /\ pf'[c].pc # "idle" /\ phaseRef # "idle"

C5_FailedInstallKeepsCache ==
    [][\A p \in Procs :
          (bm'[p] # bm[p] /\ bm'[p].op = "install" /\ bm'[p].result # "ok")
              => cached_recipes_' = cached_recipes_]_vars

\* An install of a cached, not installed backend failed in the download stage.
C5_Witness ==
    \E p \in Procs :
        /\ bm[p].op = "install" /\ bm[p].result = "error" /\ bm[p].target = TVulkan
        /\ TVulkan \in DOMAIN cached_recipes_
        /\ cached_recipes_[TVulkan].state \in {"installable", "update_required"}

\* The last terminal call made on the tracker entry ("none" when there is none).
LastTrackerCall ==
    IF xf.trackerCalls = <<>> THEN "none" ELSE xf.trackerCalls[Len(xf.trackerCalls)]

Settled == xf.pc = "settled"

\* C6: once a `complete` event was processed the call never rejects: when
\* it settles, whatever the transport did afterwards (read error, reset,
\* abort), it resolves, the updated event has been dispatched exactly once
\* and the tracker entry, unless a later error frame changed it, was last
\* marked completed.
C6_CompleteThenResolves ==
    xg.completeSeen =>
        /\ xf.outcome \in {"pending", "resolved"}
        /\ ~Settled => xf.updated = 0
        /\ Settled =>
             /\ xf.outcome = "resolved"
             /\ xf.updated = 1
             /\ (xf.downloadId /\ ~xg.errorAfterComplete)
                    => LastTrackerCall = "completeDownload"

\* A shown transfer settled after `complete` followed by a transport error or an abort.
C6_Witness ==
    /\ xg.completeSeen /\ Settled /\ xf.downloadId
    /\ xg.endedBy \in {"read_error", "abort"}
    /\ xf.outcome = "resolved"

\* C7: a transfer is marked completed and the call reports success only if
\* a `complete` event was received; a stream that ends without one is not
\* reported as completed.
C7_CompletionOnlyByCompleteEvent ==
    /\ (Settled /\ xf.outcome = "resolved") => xg.completeSeen
    /\ (\E i \in DOMAIN xf.trackerCalls : xf.trackerCalls[i] = "completeDownload")
           => xg.completeSeen

\* C8: every `data:` line received under the event name `error` (before any
\* `complete`) makes the call reject and marks the transfer failed, also
\* when its payload is not valid JSON; a `data:` line with malformed JSON
\* under any other event name is skipped and the stream continues.
C8_ErrorFramesRaiseParseErrorsDoNot ==
    /\ (xg.errorData /\ ~xg.completeSeen) =>
           /\ Settled
           /\ xf.outcome = "Error"
           /\ xf.downloadId => LastTrackerCall = "failDownload"
    /\ xg.skipped \notin {"none", "error"} =>
           /\ xf.pc = "reading"
           /\ xf.outcome = "pending"

\* C9: when a cancel event naming the transfer was received before any
\* `complete` event, the abort handle is triggered, no further progress is
\* applied, and when the call settles the transfer is cancelled and the
\* call has rejected with DownloadAbortError('cancelled').
C9_CancelEndsCancelled ==
    /\ ~xg.progressAfterAbort
    /\ (xf.isCancelled /\ ~xg.completeSeen) => xf.aborted
    /\ (xf.isCancelled /\ ~xg.completeSeen /\ Settled) =>
           /\ xf.outcome = "DownloadAbortError:cancelled"
           /\ xf.downloadId => LastTrackerCall = "cancelDownload"

\* C10: when a pause event naming the transfer was received before any
\* `complete` event, the abort handle is triggered, and when the call
\* settles the transfer is paused, no cleanup-complete event was
\* dispatched and the call has rejected with DownloadAbortError('paused'),
\* also for a call started with showInDownloadManager = false.
C10_PauseEndsPaused ==
    /\ (xf.isPaused /\ ~xg.completeSeen) => xf.aborted
    /\ (xf.isPaused /\ ~xg.completeSeen /\ Settled) =>
           /\ xf.outcome = "DownloadAbortError:paused"
           /\ xf.cleanup = 0
           /\ xf.downloadId => LastTrackerCall = "pauseDownload"

\* Positions of the POST /load requests in the log of the pre-flight.
LoadRequests == {i \in DOMAIN emr.log : emr.log[i][1] = "load"}

\* C11: within one pre-flight the /install stream, if any, has ended with
\* `complete` before /pull is requested, the /pull stream, if any, has
\* ended with `complete` before /load is requested, and no request follows
\* a step that failed or was aborted (the re-pull after an invalidated
\* first /load aside).
C11_OrderedSideEffects ==
    \A i \in DOMAIN emr.log :
        /\ emr.log[i] = <<"install", "open">> => i = 1
        /\ (emr.log[i] = <<"pull", "open">> /\ i > 1)
               => emr.log[i - 1] \in {<<"install", "complete">>, <<"load", "invalidated">>}
        /\ (emr.log[i][1] = "load" /\ i > 1)
               => emr.log[i - 1] \in {<<"install", "complete">>, <<"pull", "complete">>}

\* C12: when the backend the pre-flight uses (the explicitly selected one,
\* or the recipe's default) is reported unsupported, ensureModelReady has
\* failed with an error at that step and has issued no /install, /pull or
\* /load request.
C12_UnsupportedFailsFast ==
    emr.bstate = "unsupported" =>
        /\ emr.pc = "done"
        /\ emr.result = "error"
        /\ emr.log = <<>>

\* An explicitly selected backend was found unsupported.
C12_Witness ==
    /\ emr.bstate = "unsupported" /\ emr.explicit /\ emr.pc = "done"

\* C13: /load is requested at most twice per pre-flight; the second request
\* directly follows one re-pull that ended with `complete`, itself directly
\* following a first /load that failed as invalidated; a failed second
\* /load and any other failure of the first end the pre-flight with an error.
C13_LoadRetriedOnce ==
    /\ Cardinality(LoadRequests) <= 2
    /\ \A i, j \in LoadRequests :
          i < j => /\ emr.log[i] = <<"load", "invalidated">>
                   /\ j = i + 3
                   /\ emr.log[i + 1] = <<"pull", "open">>
                   /\ emr.log[i + 2] = <<"pull", "complete">>
    /\ \A i \in LoadRequests :
          (emr.log[i][2] = "other_error"
             \/ (emr.log[i][2] # "ok" /\ \E k \in LoadRequests : k < i))
            => /\ emr.pc = "done"
               /\ emr.result = "error"
               /\ i = Len(emr.log)

\* C14: the fast path is taken only when the model is loaded and the
\* request has no options or the options of the loaded instance; a request
\* without options whose health check finds the model loaded takes it; a
\* request with different options never takes it, and every pre-flight that
\* succeeds off the fast path has requested /load.
C14_FastPathOnlyOnMatch ==
    /\ emr.fast => /\ emr.srvLoaded
                   /\ emr.opts \in {"none", "same"}
                   /\ emr.log = <<>>
    /\ (emr.opts = "none" /\ emr.health = "answered" /\ emr.srvLoaded) => emr.fast
    /\ (emr.opts = "diff" /\ emr.srvLoaded) => ~emr.fast
    /\ (emr.pc = "done" /\ emr.result = "ok" /\ ~emr.fast) => LoadRequests # {}

\* A request with other options than the loaded instance's was served by a /load.
C14_Witness ==
    /\ emr.opts = "diff" /\ emr.srvLoaded
    /\ emr.pc = "done" /\ emr.result = "ok"
    /\ LoadRequests # {}

\* The (recipe, backend) the call of thread p is about, over one step of p.
StepTarget(p) == IF bm[p].pc = "idle" THEN bm'[p].target ELSE bm[p].target

\* C15: install_backend and uninstall_backend never rewrite the whole
\* recipes cache: over every step of a call on (r, b) the cache keeps its
\* keys, every entry other than (r, b) stays identical, and a cache that is
\* empty or has no entry for (r, b) is left entirely unchanged.
C15_OnlyTargetEntryChanges ==
    [][\A p \in Procs :
          bm'[p] # bm[p] =>
            /\ DOMAIN cached_recipes_' = DOMAIN cached_recipes_
            /\ \A u \in DOMAIN cached_recipes_ :
                  u # StepTarget(p) => cached_recipes_'[u] = cached_recipes_[u]
            /\ StepTarget(p) \notin DOMAIN cached_recipes_
                  => cached_recipes_' = cached_recipes_]_vars

\* An uninstall of a cached backend has rewritten its entry while the other
\* entries are as the probe left them.
C15_Witness ==
    \E p \in Procs :
        /\ bm[p].pc = "done" /\ bm[p].op = "uninstall" /\ bm[p].result = "ok"
        /\ bm[p].target = TVulkan
        /\ TVulkan \in DOMAIN cached_recipes_
        /\ cached_recipes_[TVulkan].state = "installable"
        /\ cached_recipes_[TVulkan].version = <<"1.3.0">>
        /\ cached_recipes_[TRocm] = ProbeEntry(TRocm, "none")

\* C16: a cache update made by a finished install_backend or
\* uninstall_backend is visible to every get_recipes_cache() that starts
\* afterwards, whatever set_recipes_cache calls publishing a snapshot probed
\* before the call finished come in between: the read returns the entry of
\* (r, b) in the state the call wrote.
C16_UpdateVisibleToLaterReads ==
    (lastRead # <<>> /\ lastRead[1].due # <<>>)
        => /\ lastRead[1].due[1] \in DOMAIN lastRead[1].got
           /\ lastRead[1].got[lastRead[1].due[1]].state = lastRead[1].due[2].state

\* Program points of a call at which blocking I/O is in progress: the
\* artifact download and extraction (or the vendor installer), the removal
\* of the install directory, the 500 ms sleep between removal attempts.
BlockingIO == {"download", "flm_install", "remove", "sleep"}

\* C17: cache_mutex_ is never held by a call while its download /
\* extraction, its directory removal or its retry sleep is in progress.
C17_MutexNotHeldAcrossIO ==
    \A p \in Procs : bm[p].pc \in BlockingIO => cache_mutex_ # p

\* One call is inside update_recipes_cache_entry, holding the mutex, while
\* the other call is downloading, removing or sleeping.
C17_Witness ==
    \E p, q \in Procs :
        /\ p # q
        /\ bm[p].pc \in {"download", "remove", "sleep"}
        /\ cache_mutex_ = q /\ bm[q].pc = "locked"

\* What uninstall_backend promises for the (recipe, backend) pairs in ts:
\* at most MaxRemoveAttempts removal attempts, a retry only while the
\* directory is still there, failure exactly when the directory is still
\* there at the end, no cache change when it fails and a not-installed
\* entry when it does not.
UninstallContract(ts) ==
    /\ \A p \in Procs :
          (bm[p].op = "uninstall" /\ bm[p].target \in ts) =>
             /\ bm[p].pc \in {"remove", "sleep"} => bm[p].attempt < MaxRemoveAttempts
             /\ bm[p].pc = "sleep" => dir_exists(disk[bm[p].target])
             /\ bm[p].pc = "done" =>
                   (bm[p].result = "error" <=> dir_exists(disk[bm[p].target]))
    /\ \A k \in DOMAIN trail :
          (trail[k].op = "uninstall" /\ trail[k].target \in ts) =>
             /\ (trail[k].result = "error" /\ k > 1)
                   => trail[k].cache = trail[k - 1].cache
             /\ (trail[k].result = "ok" /\ trail[k].target \in DOMAIN trail[k].cache)
                   => trail[k].cache[trail[k].target].state # "installed"

\* Steps an uninstall_backend call at this program point has left at most.
UninstallRank(call) ==
    CASE call.pc = "remove" -> 2 * (MaxRemoveAttempts - call.attempt) + 4
      [] call.pc = "sleep" -> 2 * (MaxRemoveAttempts - call.attempt) + 3
      [] call.pc = "check" -> 3
      [] call.pc = "update" -> 2
      [] call.pc = "locked" -> 1
      [] OTHER -> 0

\* Pairs uninstall_backend does not reject before it looks at the directory.
Removable == {t \in Targets : t[1] # "flm" /\ HasSpec(t[1])}

\* C18 as stated, for every (recipe, backend): uninstall_backend makes at
\* most 5 removal attempts, stops retrying once the directory is gone, fails
\* if and only if the directory still exists after the last attempt, and
\* updates the cache entry to not-installed only when it does not fail.
C18_UninstallContractAllPairs == UninstallContract(Targets)

\* C18 for the pairs that reach the removal: the contract above, and the
\* call terminates, as every program point short of the return has a step
\* to take and every step brings the call nearer to its return.
C18_UninstallTerminates ==
    /\ []UninstallContract(Removable)
    /\ [](\A p \in Procs :
            (bm[p].op = "uninstall" /\ bm[p].pc \notin {"idle", "done"})
                => ENABLED CallStep(p))
    /\ [][\A p \in Procs :
            (bm[p].op = "uninstall" /\ bm[p].pc \notin {"idle", "done"}
               /\ bm'[p] # bm[p])
                => UninstallRank(bm'[p]) < UninstallRank(bm[p])]_vars

\* An uninstall has used up its five attempts and failed with the directory
\* still in place.
C18_Witness ==
    /\ bm["t1"].op = "uninstall" /\ bm["t1"].pc = "done"
    /\ bm["t1"].result = "error" /\ bm["t1"].attempt = MaxRemoveAttempts
    /\ dir_exists(disk[bm["t1"].target])

\* Three calls in a row on the same pair, all returning normally: install,
\* uninstall, install, the pair having a cache entry that is not unsupported.
InstallUninstallInstall(k) ==
    /\ k + 2 \in DOMAIN trail
    /\ trail[k].op = "install" /\ trail[k + 1].op = "uninstall"
    /\ trail[k + 2].op = "install"
    /\ trail[k + 1].target = trail[k].target /\ trail[k + 2].target = trail[k].target
    /\ \A j \in {k, k + 1, k + 2} : trail[j].result = "ok"
    /\ trail[k].target \in DOMAIN trail[k].cache
    /\ trail[k].cache[trail[k].target].state # "unsupported"

\* C19: for a supported (r, b) present in the recipes cache, install;
\* uninstall; install restores the installed state: the cache entry after
\* the second install is identical to the entry after the first (state
\* installed, empty message and action, same version, release_url and
\* download_filename), and the uninstall in between had changed it.
C19_ReinstallRestoresEntry ==
    \A k \in DOMAIN trail :
        InstallUninstallInstall(k) =>
            LET t == trail[k].target
            IN /\ trail[k + 2].cache[t] = trail[k].cache[t]
               /\ trail[k].cache[t].state = "installed"
               /\ trail[k].cache[t].message = ""
               /\ trail[k].cache[t].action = <<>>
               /\ trail[k + 1].cache[t].state = "installable"

\* The three calls have been made on (llamacpp, vulkan).
C19_Witness ==
    /\ InstallUninstallInstall(1)
    /\ trail[1].target = TVulkan

\* Two install_backend calls in a row on the same pair, the first returning
\* normally, which leaves the required version on disk.
InstallInstall(k) ==
    /\ k + 1 \in DOMAIN trail
    /\ trail[k].op = "install" /\ trail[k + 1].op = "install"
    /\ trail[k + 1].target = trail[k].target
    /\ trail[k].result = "ok"

\* C20: install; install is equivalent to a single install: with the
\* required version on disk after the first call, the second call leaves the
\* install directories and the recipes cache exactly as the first left them.
C20_SecondInstallIsNoOp ==
    \A k \in DOMAIN trail :
        InstallInstall(k) =>
            /\ exe_exists(trail[k].disk[trail[k].target])
            /\ trail[k + 1].disk = trail[k].disk
            /\ trail[k + 1].cache = trail[k].cache

\* (llamacpp, vulkan), known to the cache, has been installed twice in a
\* row, both calls returning normally.
C20_Witness ==
    /\ InstallInstall(1)
    /\ trail[1].target = TVulkan /\ trail[2].result = "ok"
    /\ TVulkan \in DOMAIN trail[1].cache
    /\ trail[2].cache[TVulkan].state = "installed"

\* C21: version comparison is reflexive: for every version string s, the
\* empty string and strings without a leading digit included,
\* Version::parse(s) >= Version::parse(s) is true.
C21_GeReflexive ==
    (ver.pc = "done" /\ ver.a = ver.b) => ver.ge

\* A version string without its optional leading v / V and without its
\* trailing zero segments.
RECURSIVE DropZeroSegments(_)
DropZeroSegments(s) ==
    IF Len(s) > 2 /\ SubSeq(s, Len(s) - 1, Len(s)) = <<".", "0">>
    THEN DropZeroSegments(SubSeq(s, 1, Len(s) - 2))
    ELSE s

Canonical(s) ==
    DropZeroSegments(IF s # <<>> /\ Head(s) \in {"v", "V"} THEN Tail(s) ELSE s)

\* C22: versions that differ only by an optional leading v / V or by
\* trailing zero segments compare equal and have the same to_string().
C22_SameCanonicalForm ==
    (ver.pc = "done" /\ Canonical(ver.a) = Canonical(ver.b))
        => (ver.eq /\ ver.sa = ver.sb)

\* The reference comparison: strip one optional leading v / V, split on '.',
\* map each segment to the integer of its leading digit run (0 when it has
\* none), pad with zeros, compare the lists lexicographically.
RECURSIVE SegmentValues(_)
SegmentValues(segs) ==
    IF segs = <<>> THEN <<>>
    ELSE <<DecimalValue(numeric_prefix(Head(segs)))>> \o SegmentValues(Tail(segs))

ReferenceParts(s) ==
    SegmentValues(SplitDots(IF s # <<>> /\ Head(s) \in {"v", "V"} THEN Tail(s) ELSE s))

ReferenceGe(a, b) ==
    LET p == ReferenceParts(a)
        q == ReferenceParts(b)
        diff == {i \in 1..max_len(p, q) : part_or_zero(p, i) # part_or_zero(q, i)}
    IN diff = {} \/ LET i == CHOOSE k \in diff : \A j \in diff : k <= j
                     IN part_or_zero(p, i) > part_or_zero(q, i)

\* C23: for all version strings a and b, Version::parse(a) >=
\* Version::parse(b) equals the reference comparison, every dot-separated
\* segment keeping its position in the compared list.
C23_GeMatchesReference ==
    ver.pc = "done" => (ver.ge <=> ReferenceGe(ver.a, ver.b))

\* C24: when SDServer::load or RyzenAIServer::load throws because the
\* readiness probe of the child it spawned did not succeed, that child is no
\* longer running and the stored process handle is cleared.
C24_FailedProbeStopsChild ==
    /\ eng_last = "sd_load_failed_ready"
          => ((next_pid - 1) \notin sd_alive /\ sd_process_handle = 0)
    /\ eng_last = "rz_load_failed_ready"
          => ((next_pid - 1) \notin rz_alive /\ rz_process_handle = 0)

\* A load on an SDServer whose earlier child is still running has failed
\* its readiness probe.
C24_Witness ==
    /\ eng_last = "sd_load_failed_ready"
    /\ sd_alive # {}

\* C25: after unload() has returned on SDServer or RyzenAIServer, from any
\* reachable state (never loaded, loaded, after a failed load), the process
\* handle is cleared and the port is 0.
C25_UnloadClearsHandleAndPort ==
    /\ eng_last = "sd_unload" => (sd_process_handle = 0 /\ sd_port = 0)
    /\ eng_last = "rz_unload" => (rz_process_handle = 0 /\ rz_port = 0)

\* C26: SDServer::chat_completion, completion and responses return the
\* structured UnsupportedOperation error and have no side effect: no request
\* is forwarded to the child, no process is spawned or stopped, and port and
\* handle stay as they were, whether or not a model is loaded.
C26_UnsupportedHasNoSideEffect ==
    [][eng_last' = "sd_unsupported" =>
          /\ eng_reply'.kind = "UnsupportedOperation"
          /\ eng_reply'.operation \in UnsupportedOps
          /\ eng_reply'.engine = "sd-cpp (image generation model)"
          /\ UNCHANGED <<sd_process_handle, sd_port, sd_alive, next_pid>>
          /\ UNCHANGED <<rz_process_handle, rz_port, is_loaded_, model_path_, rz_alive>>]_vars

\* An unsupported operation has answered on an SDServer whose child is
\* loaded and running.
C26_Witness ==
    /\ eng_last = "sd_unsupported"
    /\ eng_reply = UnsupportedOperation("Responses")
    /\ sd_process_handle \in sd_alive
    /\ sd_port # 0

\* The terminal call made last on the tracker entry of the transfer.
LastTerminalCall ==
    IF xf.trackerCalls = <<>> THEN "none" ELSE xf.trackerCalls[Len(xf.trackerCalls)]

\* C27: within one transfer `complete` and `error` are terminal: once
\* pullModel or installBackend has processed a `complete` or an `error`
\* event, no later frame of the same stream updates the progress of the
\* transfer or changes its terminal state.
C27_CompleteAndErrorAreTerminal ==
    /\ ~xg.progressAfterComplete
    /\ (xf.downloadCompleted /\ xf.downloadId) => LastTerminalCall = "completeDownload"
    /\ (xg.endedBy = "error_frame" /\ ~xg.completeSeen)
          => (xf.pc = "settled" /\ (xf.downloadId => LastTerminalCall = "failDownload"))

\* C28: every inference that entered phase `inferring` (runPreFlight
\* returned true) eventually returns the phase to `idle`.
C28_InferringLeadsToIdle ==
    (phaseRef = "inferring") ~> (phaseRef = "idle")

\* C29: in the install / pull stream parser every `data:` line is handled
\* under the event name set by the most recent `event:` line since the last
\* blank line, and under `progress` if there is none: the current event name
\* of the parser is that name after every line read.
C29_EventNameSinceLastBlank ==
    xf.pc \in {"reading", "settled"} => xf.currentEventType = xg.refEvent

\* `event: complete`, a data line, a blank line and a second data line were
\* read: the second one was applied as a progress update.
C29_Witness ==
    /\ xg.blankReset
    /\ xg.lines = 4
    /\ xg.progressAfterComplete
    /\ xf.currentEventType = "progress"

\* The pairs the required-version table has no entry for.
MissingVersion == {t \in Requests : ~get_version_from_config(t[1], t[2]).ok}

\* C30: if the required-version table has no entry for the requested
\* (recipe, backend), install_backend fails with an error before any
\* download is started and leaves the recipes cache unchanged: such a call
\* is never seen at the installer, it ends with an error, and the cache after
\* it is the cache the call found.
C30_MissingVersionFailsBeforeDownload ==
    /\ \A p \in Procs :
          (bm[p].op = "install" /\ bm[p].target \in MissingVersion)
             => (bm[p].pc = "done" /\ bm[p].result = "error")
    /\ \A k \in DOMAIN trail :
          (trail[k].op = "install" /\ trail[k].target \in MissingVersion)
             => /\ trail[k].result = "error"
                /\ k > 1 => trail[k].cache = trail[k - 1].cache
                /\ k = 1 => trail[k].cache \in {EmptyCache, ProbeCache(trail[k].disk)}

\* What the claim calls a well-formed entry of (recipe, backend).
WellFormedEntry(t, info) ==
    /\ info.state \in {"installed", "installable", "unsupported"}
    /\ info.state = "installed" => (info.message = "" /\ info.action = <<>>)
    /\ info.state = "installable" => info.action = install_action(t[1], t[2])
    /\ info.state = "unsupported" => info.action = <<>>

\* C31: every cache entry written by install_backend / uninstall_backend is
\* well-formed: installed has empty message and action, installable has the
\* install command of exactly that recipe:backend, unsupported has an empty
\* action, and update_required is never written.
C31_WrittenEntriesWellFormed ==
    \A k \in DOMAIN trail :
        (trail[k].result = "ok" /\ trail[k].target \in DOMAIN trail[k].cache)
           => WellFormedEntry(trail[k].target, trail[k].cache[trail[k].target])

\* (llamacpp, vulkan), found in state update_required, was installed and
\* then uninstalled, and the unsupported (llamacpp, rocm) was uninstalled.
C31_Witness ==
    /\ Len(trail) = 3
    /\ trail[1].op = "install" /\ trail[1].target = TVulkan /\ trail[1].result = "ok"
    /\ TVulkan \in DOMAIN trail[1].cache
    /\ trail[1].cache[TVulkan].state = "installed"
    /\ trail[2].op = "uninstall" /\ trail[2].target = TVulkan /\ trail[2].result = "ok"
    /\ trail[2].cache[TVulkan].state = "installable"
    /\ trail[3].op = "uninstall" /\ trail[3].target = TRocm /\ trail[3].result = "ok"
    /\ trail[3].cache[TRocm].state = "unsupported"

\* C32: a cache entry whose state is unsupported keeps that state and its
\* explanatory message over every step of install_backend and
\* uninstall_backend calls, those on its own (recipe, backend) included.
C32_UnsupportedStaysUnsupported ==
    [][\A t \in DOMAIN cached_recipes_ :
          cached_recipes_[t].state = "unsupported"
             => /\ t \in DOMAIN cached_recipes_'
                /\ cached_recipes_'[t].state = "unsupported"
                /\ cached_recipes_'[t].message = cached_recipes_[t].message]_vars

\* An install_backend and an uninstall_backend on the unsupported
\* (llamacpp, rocm) have both returned normally.
C32_Witness ==
    /\ bm["t1"].pc = "done" /\ bm["t1"].op = "install"
    /\ bm["t1"].target = TRocm /\ bm["t1"].result = "ok"
    /\ bm["t2"].pc = "done" /\ bm["t2"].op = "uninstall"
    /\ bm["t2"].target = TRocm /\ bm["t2"].result = "ok"
    /\ TRocm \in DOMAIN cached_recipes_
    /\ cached_recipes_[TRocm].message = "Requires an AMD GPU."


\* The install or pull step that ended the awaited ensureModelReady was
\* paused or cancelled by the user.
StreamStopped(e) ==
    /\ e.log # <<>>
    /\ e.log[Len(e.log)][1] \in {"install", "pull"}
    /\ e.log[Len(e.log)][2] \in {"paused", "cancelled"}

\* C33: a pre-flight whose install or pull step is paused or cancelled makes
\* runPreFlight return false with the phase idle, the modality cleared and
\* onError not called; every other failure of the pre-flight calls onError
\* exactly once before runPreFlight returns false with the phase idle.
C33_AbortIsSilentOtherFailuresReport ==
    [][\A c \in Callers :
          (pf[c].pc = "pre_flight" /\ pf'[c].pc = "returned")
             => /\ emr.pc = "done" /\ emr.result # "ok"
                /\ phaseRef' = "idle"
                /\ activeModality' = NoModality
                /\ pf'[c].ret = "false"
                /\ pf'[c].onError = IF StreamStopped(emr) THEN 0 ELSE 1]_vars

\* A pull paused during the pre-flight: runPreFlight has returned false
\* without calling onError.
C33_Witness ==
    \E c \in Callers :
        /\ pf[c].pc = "returned" /\ pf[c].ret = "false" /\ ~pf[c].rejected
        /\ pf[c].onError = 0
        /\ phaseRef = "idle" /\ activeModality = NoModality
        /\ emr.pc = "done"
        /\ emr.log # <<>> /\ emr.log[Len(emr.log)] = <<"pull", "paused">>


\* The ensureModelReady runs in flight for a model, over all entry points.
FlightsFor(x) ==
    Cardinality({c \in Callers : flights.pre[c].pc = "running" /\ flights.pre[c].model = x})
    + Cardinality({b \in AudioButtons : flights.tts[b] = x})
    + (IF x \in flights.load THEN 1 ELSE 0)

\* C34: pre-flights for the same model are serialized across all client
\* entry points: there are never two ensureModelReady runs for one model in
\* flight, whether started by runPreFlight, by the Model Manager's load
\* action or by the TTS audio buttons.
C34_OneFlightPerModel == \A x \in Models : FlightsFor(x) <= 1


\* Outcomes of a RyzenAIServer::load call.
RzLoadResults == {"rz_load_ok", "rz_load_failed_early", "rz_load_failed_spawn",
                  "rz_load_failed_ready"}

\* C35: RyzenAIServer::load spawns only if a model path was set since the
\* last unload: unload() clears the model path, so a load() that follows an
\* unload() with no set_model_path() in between fails before any process is
\* spawned and leaves the server not loaded.
C35_LoadAfterUnloadFailsEarly ==
    [][(eng_last = "rz_unload" /\ eng_last' \in RzLoadResults)
          => /\ eng_last' = "rz_load_failed_early"
             /\ next_pid' = next_pid
             /\ rz_alive' = rz_alive
             /\ ~is_loaded_']_vars


\* C36: the phase never moves from idle directly to inferring: a reset()
\* issued while a pre-flight is in flight is not overridden when the
\* pre-flight completes, under any interleaving of runPreFlight and reset.
C36_NoIdleToInferring ==
    [][~(phaseRef = "idle" /\ phaseRef' = "inferring")]_vars


\* C37: in RyzenAIServer is_loaded_ is true only while a child process
\* started by the server is alive and port_ is non-zero, in every reachable
\* state; chat_completion, completion and responses, which forward exactly
\* when is_loaded_ is true, then forward only to a live child.
C37_LoadedImpliesLiveChild ==
    is_loaded_ => (rz_process_handle \in rz_alive /\ rz_port # 0)


\* C38: if a cancel event naming the transfer was received before it
\* settled, the transfer never ends paused: when both a pause and a cancel
\* arrive before the abort is processed, the call rejects with
\* DownloadAbortError('cancelled'), the entry is cancelled and
\* cleanup-complete is dispatched.
C38_CancelWinsOverPause ==
    (Settled /\ xf.isCancelled) =>
        /\ xf.outcome # "DownloadAbortError:paused"
        /\ LastTrackerCall # "pauseDownload"
        /\ (xf.isPaused /\ ~xg.completeSeen) =>
               /\ xf.outcome = "DownloadAbortError:cancelled"
               /\ xf.cleanup = 1


\* C39: the assistant content accumulated by the chat streaming consumer
\* depends only on the concatenated bytes of the response, not on how they
\* are split into chunks: a `data:` line split across two chunks adds the
\* same delta as the line delivered in one chunk.
C39_ContentIndependentOfChunking ==
    chat.pc = "done" => chat.parts = chat.whole


\* C40: every pullModel / installBackend call that registered a transfer
\* applies exactly one terminal transition (one of completeDownload,
\* failDownload, pauseDownload, cancelDownload, called once) by the time the
\* call settles, on every path: complete, error event, EOF, HTTP error,
\* pause, cancel, transport error.
C40_ExactlyOneTerminalCall ==
    (Settled /\ xf.downloadId) => Len(xf.trackerCalls) = 1

====
